---- MODULE Spec2Model ----
(***************************************************************************)
(* A model of the profile-scraping subsystem of names-and-faces:           *)
(* app/routes/scraper.py (the scrape handler, the per-platform scrapers,   *)
(* the cleaners, the image filter and the image downloader),               *)
(* app/services/images.py (save_and_optimize) and app/services/llm.py      *)
(* (the LLM fallback extractor).                                           *)
(*                                                                         *)
(* A Python str is a sequence of one-character strings.  Three characters  *)
(* outside ASCII are written as the tokens "ndash" (U+2013), "mdash"       *)
(* (U+2014) and "middot" (U+00B7); the backquote is the token "backquote". *)
(***************************************************************************)
EXTENDS Integers, Sequences, FiniteSets, TLC

VARIABLES
    cfg,            \* process configuration read at import: LINKEDIN_LI_AT, ANTHROPIC_API_KEY
    pc,             \* position of scrape_url
    req,            \* number of scrape requests started so far
    data,           \* scrape_url: the "url" field of the request's JSON body
    url,            \* scrape_url: the local variable url
    platform,       \* scrape_url: platform
    cookies,        \* scrape_url: the cookies dict, as the set of its keys
    botUA,          \* scrape_url: whether req_headers carries the bot user agent
    pageResp,       \* scrape_url: resp of the page fetch
    spc,            \* position of the platform scraper
    soup,           \* the parsed page, as what the extractors read from it
    gen,            \* _scrape_generic: its locals between its steps
    result,         \* scrape_url: result of the platform scraper
    warnings,       \* scrape_url: warnings
    face_filename,  \* scrape_url: face_filename (0 is None)
    response,       \* what the request answered
    dlpc,           \* position of _download_image
    dl_url,         \* _download_image: image_url
    dl_cookies,     \* _download_image: cookies
    imgResp,        \* _download_image: resp
    tmp,            \* _download_image: tmp, the temporary file (0: none created)
    total_bytes,    \* _download_image: total_bytes
    remaining,      \* bytes of the body iter_content has not yielded yet
    dlReturn,       \* what _download_image returned: (filename, error)
    tmpFiles,       \* the temporary files that exist on disk
    tmpCount,       \* temporary files created so far
    media,          \* the files of MEDIA_DIR
    log             \* the network calls issued so far, in order

vars == <<cfg, pc, data, req, url, platform, cookies, botUA, pageResp, spc, soup, gen, result,
          warnings, face_filename, response, dlpc, dl_url, dl_cookies, imgResp,
          tmp, total_bytes, remaining, dlReturn, tmpFiles, tmpCount, media, log>>

(***************************************************************************)
(* Bounds of the model.                                                    *)
(***************************************************************************)
MaxRequests == 1
MaxBodyLen == 8193

(***************************************************************************)
(* str helpers.                                                            *)
(***************************************************************************)
UpperAlphabet == <<"A", "B", "C", "D", "E", "F", "G", "H", "I", "J", "K", "L", "M", "N", "O", "P", "Q", "R", "S", "T", "U", "V", "W", "X", "Y", "Z">>
LowerAlphabet == <<"a", "b", "c", "d", "e", "f", "g", "h", "i", "j", "k", "l", "m", "n", "o", "p", "q", "r", "s", "t", "u", "v", "w", "x", "y", "z">>

IndexIn(c, alphabet) ==
    IF \E i \in 1..Len(alphabet) : alphabet[i] = c
    THEN CHOOSE i \in 1..Len(alphabet) : alphabet[i] = c
    ELSE 0

\* str.lower() and str.upper(), one character
LowerOf == [c \in {UpperAlphabet[i] : i \in 1..26} |-> LowerAlphabet[IndexIn(c, UpperAlphabet)]]
UpperOf == [c \in {LowerAlphabet[i] : i \in 1..26} |-> UpperAlphabet[IndexIn(c, LowerAlphabet)]]
IsUpperChar(c) == c \in DOMAIN LowerOf
IsLowerChar(c) == c \in DOMAIN UpperOf
Lower(c) == IF IsUpperChar(c) THEN LowerOf[c] ELSE c
Upper(c) == IF IsLowerChar(c) THEN UpperOf[c] ELSE c
IsAlpha(c) == IsUpperChar(c) \/ IsLowerChar(c)
IsDigit(c) == c \in {"0", "1", "2", "3", "4", "5", "6", "7", "8", "9"}
\* the regex class \s and the characters str.strip() removes
IsSpace(c) == c \in {" ", "\t", "\n", "\r"}

LowerStr(s) == [i \in 1..Len(s) |-> Lower(s[i])]
UpperStr(s) == [i \in 1..Len(s) |-> Upper(s[i])]

\* s[i:i+len(sub)] == sub
MatchAt(s, sub, i) ==
    /\ i >= 1
    /\ i + Len(sub) - 1 <= Len(s)
    /\ \A k \in 1..Len(sub) : s[i + k - 1] = sub[k]

\* sub in s
Contains(s, sub) == \E i \in 1..(Len(s) - Len(sub) + 1) : MatchAt(s, sub, i)

\* s.startswith(sub)
StartsWith(s, sub) == MatchAt(s, sub, 1)

\* s.find(sub) + 1: the first place sub occurs at, 0 when it occurs nowhere
Find(s, sub) ==
    IF Contains(s, sub)
    THEN CHOOSE i \in 1..(Len(s) - Len(sub) + 1) :
            /\ MatchAt(s, sub, i)
            /\ \A j \in 1..(i - 1) : ~MatchAt(s, sub, j)
    ELSE 0

\* s[:n]
Take(s, n) == SubSeq(s, 1, IF n < Len(s) THEN n ELSE Len(s))
\* s[n:], n counted from 1
Drop(s, n) == SubSeq(s, n, Len(s))

\* s.replace(old, new), old not empty
RECURSIVE Replace(_, _, _)
Replace(s, old, new) ==
    LET i == Find(s, old) IN
    IF i = 0 THEN s
    ELSE Take(s, i - 1) \o new \o Replace(Drop(s, i + Len(old)), old, new)

RECURSIVE LStrip(_)
LStrip(s) == IF s # <<>> /\ IsSpace(Head(s)) THEN LStrip(Tail(s)) ELSE s
RECURSIVE RStrip(_)
RStrip(s) == IF s # <<>> /\ IsSpace(s[Len(s)]) THEN RStrip(Take(s, Len(s) - 1)) ELSE s
\* s.strip()
Strip(s) == RStrip(LStrip(s))

\* str(n) for n >= 0
RECURSIVE Digits(_)
Digits(n) ==
    LET d == <<"0", "1", "2", "3", "4", "5", "6", "7", "8", "9">>[(n % 10) + 1] IN
    IF n < 10 THEN <<d>> ELSE Digits(n \div 10) \o <<d>>

\* int(s): [ok |-> FALSE] stands for ValueError
RECURSIVE DigitsValue(_)
DigitsValue(s) ==
    IF s = <<>> THEN 0
    ELSE 10 * DigitsValue(Take(s, Len(s) - 1))
         + (IndexIn(s[Len(s)], <<"0", "1", "2", "3", "4", "5", "6", "7", "8", "9">>) - 1)
ParseInt(s) ==
    LET t == Strip(s)
        neg == t # <<>> /\ Head(t) = "-"
        body == IF t # <<>> /\ Head(t) \in {"-", "+"} THEN Tail(t) ELSE t
    IN  IF body # <<>> /\ \A i \in 1..Len(body) : IsDigit(body[i])
        THEN [ok |-> TRUE, val |-> IF neg THEN 0 - DigitsValue(body) ELSE DigitsValue(body)]
        ELSE [ok |-> FALSE, val |-> 0]

\* fault variant of _is_valid_profile_image: the fragments sought in the URL as
\* written
ValidCaseSensitive(image_url) ==
    /\ image_url # <<>>
    /\ ~Contains(image_url, <<"/", "a", "e", "r", "o", "-", "v", "1", "/", "s", "c", "/", "h", "/">>)
    /\ ~Contains(image_url, <<"g", "h", "o", "s", "t">>)
    /\ ~Contains(image_url, <<"d", "e", "f", "a", "u", "l", "t">>)
    /\ ~Contains(image_url, <<"p", "l", "a", "c", "e", "h", "o", "l", "d", "e", "r">>)
    /\ ~Contains(image_url, <<"n", "o", "-", "p", "h", "o", "t", "o">>)
    /\ ~Contains(image_url, <<"n", "o", "_", "p", "h", "o", "t", "o">>)

(***************************************************************************)
(* _is_valid_profile_image                                                 *)
(***************************************************************************)
_is_valid_profile_image(image_url) ==
    IF image_url = <<>> THEN FALSE
    ELSE LET lower == LowerStr(image_url) IN
         IF Contains(lower, <<"/", "a", "e", "r", "o", "-", "v", "1", "/", "s", "c", "/", "h", "/">>) THEN FALSE
         ELSE IF Contains(lower, <<"g", "h", "o", "s", "t">>) \/ Contains(lower, <<"d", "e", "f", "a", "u", "l", "t">>) THEN FALSE
         ELSE IF \/ Contains(lower, <<"p", "l", "a", "c", "e", "h", "o", "l", "d", "e", "r">>)
                 \/ Contains(lower, <<"n", "o", "-", "p", "h", "o", "t", "o">>)
                 \/ Contains(lower, <<"n", "o", "_", "p", "h", "o", "t", "o">>) THEN FALSE
         ELSE TRUE

(***************************************************************************)
(* Regular-expression pieces used by the cleaners.                         *)
(***************************************************************************)
\* the length of the run of \s characters that ends just before position p
RECURSIVE SpaceRunBefore(_, _)
SpaceRunBefore(s, p) ==
    IF p > 1 /\ IsSpace(s[p - 1]) THEN 1 + SpaceRunBefore(s, p - 1) ELSE 0

\* the length of the run of \s characters that starts at position p
RECURSIVE SpaceRunAt(_, _)
SpaceRunAt(s, p) ==
    IF p <= Len(s) /\ IsSpace(s[p]) THEN 1 + SpaceRunAt(s, p + 1) ELSE 0

\* ".*$" from position j on: "." matches no newline and "$" matches at the end of
\* the string or just before a newline that ends it.  The position after the
\* last character matched, or 0 when ".*$" cannot match at j.
DotStarEnd(s, j) ==
    IF \A k \in j..Len(s) : s[k] # "\n" THEN Len(s) + 1
    ELSE IF s[Len(s)] = "\n" /\ \A k \in j..(Len(s) - 1) : s[k] # "\n" THEN Len(s)
    ELSE 0

\* some word of words occurs at position p of s: the length of the first such
\* word in the order of the alternation, 0 when there is none
RECURSIVE WordAt(_, _, _)
WordAt(s, p, words) ==
    IF words = <<>> THEN 0
    ELSE IF MatchAt(s, Head(words), p) THEN Len(Head(words))
    ELSE WordAt(s, p, Tail(words))

\* re.sub(r"\s*<prefix>.*$", "", s) where prefix matches at p with length
\* PrefixLen[p] > 0: the leftmost match is cut out
CutToEnd(s, PrefixLen) ==
    LET ok(p) == PrefixLen[p] > 0 /\ DotStarEnd(s, p + PrefixLen[p]) # 0 IN
    IF \E p \in 1..Len(s) : ok(p)
    THEN LET p == CHOOSE q \in 1..Len(s) : ok(q) /\ \A r \in 1..(q - 1) : ~ok(r)
             start == p - SpaceRunBefore(s, p)
         IN  Take(s, start - 1) \o Drop(s, DotStarEnd(s, p + PrefixLen[p]))
    ELSE s

(***************************************************************************)
(* _clean_name                                                             *)
(***************************************************************************)
NameSeparators == {"|", "-", "ndash", "mdash"}
PlatformWords == <<<<"l", "i", "n", "k", "e", "d", "i", "n">>, <<"t", "w", "i", "t", "t", "e", "r">>, <<"f", "a", "c", "e", "b", "o", "o", "k">>, <<"x">>>>
CredentialWords == <<<<"P", "h", "D">>, <<"M", "D">>, <<"M", "B", "A">>, <<"C", "P", "A">>, <<"P", "E">>, <<"P", "M", "P">>,
                     <<"C", "F", "A">>, <<"J", "D">>, <<"E", "s", "q">>>>

\* line 72
StripSeparatorSuffix(name) ==
    CutToEnd(name, [p \in 1..Len(name) |-> IF name[p] \in NameSeparators THEN 1 ELSE 0])

\* lines 73-75, re.IGNORECASE
StripOnPlatform(name) ==
    LET lower == LowerStr(name) IN
    CutToEnd(name, [p \in 1..Len(name) |->
        IF MatchAt(lower, <<"o", "n", " ">>, p) /\ WordAt(lower, p + 3, PlatformWords) > 0
        THEN 3 + WordAt(lower, p + 3, PlatformWords) ELSE 0])

\* line 76: the comma starts the match, no \s* before it
StripCredentials(name) ==
    LET len(p) ==
            IF name[p] = "," /\ WordAt(name, p + 1 + SpaceRunAt(name, p + 1), CredentialWords) > 0
            THEN 1 + SpaceRunAt(name, p + 1)
                 + WordAt(name, p + 1 + SpaceRunAt(name, p + 1), CredentialWords)
            ELSE 0
        ok(p) == len(p) > 0 /\ DotStarEnd(name, p + len(p)) # 0
    IN  IF \E p \in 1..Len(name) : ok(p)
        THEN LET p == CHOOSE q \in 1..Len(name) : ok(q) /\ \A r \in 1..(q - 1) : ~ok(r)
             IN  Take(name, p - 1) \o Drop(name, DotStarEnd(name, p + len(p)))
        ELSE name

\* str.title(): a letter is upper-cased after a character that is no letter and
\* lower-cased after a letter
Title(s) ==
    [i \in 1..Len(s) |->
        IF ~IsAlpha(s[i]) THEN s[i]
        ELSE IF i > 1 /\ IsAlpha(s[i - 1]) THEN Lower(s[i]) ELSE Upper(s[i])]

\* lines 79-80
NormalizeCase(name) ==
    IF name = LowerStr(name) \/ name = UpperStr(name) THEN Title(name) ELSE name

_clean_name(raw_name, plat) ==
    IF raw_name = <<>> THEN <<>>
    ELSE NormalizeCase(Strip(StripCredentials(StripOnPlatform(
             StripSeparatorSuffix(Strip(raw_name))))))

(***************************************************************************)
(* _clean_linkedin_description                                             *)
(***************************************************************************)
RECURSIVE DigitRunAt(_, _)
DigitRunAt(s, p) ==
    IF p <= Len(s) /\ IsDigit(s[p]) THEN 1 + DigitRunAt(s, p + 1) ELSE 0

\* line 90: the position after a match of
\* "middot \s* \d+ \+? \s* connections? \s*" that starts at p, 0 when none does
ConnectionsEnd(s, p) ==
    LET lower == LowerStr(s)
        a == p + 1 + SpaceRunAt(s, p + 1)
        b == a + DigitRunAt(s, a)
        c == IF b <= Len(s) /\ s[b] = "+" THEN b + 1 ELSE b
        d == c + SpaceRunAt(s, c)
        e == d + 10
        f == IF e <= Len(s) /\ lower[e] = "s" THEN e + 1 ELSE e
    IN  IF /\ p <= Len(s)
           /\ s[p] = "middot"
           /\ b > a
           /\ MatchAt(lower, <<"c", "o", "n", "n", "e", "c", "t", "i", "o", "n">>, d)
        THEN f + SpaceRunAt(s, f)
        ELSE 0

RECURSIVE StripConnections(_)
StripConnections(s) ==
    IF \E p \in 1..Len(s) : ConnectionsEnd(s, p) # 0
    THEN LET p == CHOOSE q \in 1..Len(s) :
                    ConnectionsEnd(s, q) # 0 /\ \A r \in 1..(q - 1) : ConnectionsEnd(s, r) = 0
         IN  Take(s, p - SpaceRunBefore(s, p) - 1) \o StripConnections(Drop(s, ConnectionsEnd(s, p)))
    ELSE s

\* line 91
StripConnect(s) ==
    LET lower == LowerStr(s)
        ok(p) == LET a == p + 1 + SpaceRunAt(s, p + 1) IN
                 /\ s[p] = "middot"
                 /\ MatchAt(lower, <<"c", "o", "n", "n", "e", "c", "t">>, a)
                 /\ \A k \in (a + 7)..Len(s) : IsSpace(s[k])
    IN  IF \E p \in 1..Len(s) : ok(p)
        THEN LET p == CHOOSE q \in 1..Len(s) : ok(q) /\ \A r \in 1..(q - 1) : ~ok(r)
             IN  Take(s, p - SpaceRunBefore(s, p) - 1)
        ELSE s

\* str.split(sep) for a one-character sep
RECURSIVE Split(_, _)
Split(s, sep) ==
    IF \E i \in 1..Len(s) : s[i] = sep
    THEN LET i == CHOOSE j \in 1..Len(s) : s[j] = sep /\ \A k \in 1..(j - 1) : s[k] # sep
         IN  <<Take(s, i - 1)>> \o Split(Drop(s, i + 1), sep)
    ELSE <<s>>

\* sep.join(parts)
RECURSIVE Join(_, _)
Join(parts, sep) ==
    IF parts = <<>> THEN <<>>
    ELSE IF Len(parts) = 1 THEN parts[1]
    ELSE parts[1] \o sep \o Join(Tail(parts), sep)

\* line 96, re.IGNORECASE
IsLocationOrConnectionsLabel(part) ==
    \/ StartsWith(LowerStr(part), <<"l", "o", "c", "a", "t", "i", "o", "n", ":">>)
    \/ StartsWith(LowerStr(part), <<"c", "o", "n", "n", "e", "c", "t", "i", "o", "n", "s", ":">>)

\* line 98
StripFieldLabel(part) ==
    LET n == WordAt(part, 1, <<<<"E", "x", "p", "e", "r", "i", "e", "n", "c", "e", ":">>, <<"E", "d", "u", "c", "a", "t", "i", "o", "n", ":">>, <<"L", "o", "c", "a", "t", "i", "o", "n", ":">>>>) IN
    IF n = 0 THEN part ELSE Drop(part, n + 1 + SpaceRunAt(part, n + 1))

\* lines 93-100
RECURSIVE CleanParts(_)
CleanParts(raw) ==
    IF raw = <<>> THEN <<>>
    ELSE LET part == Strip(Head(raw)) IN
         IF part = <<>> \/ IsLocationOrConnectionsLabel(part) THEN CleanParts(Tail(raw))
         ELSE IF StripFieldLabel(part) = <<>> THEN CleanParts(Tail(raw))
         ELSE <<StripFieldLabel(part)>> \o CleanParts(Tail(raw))

_clean_linkedin_description(desc) ==
    IF desc = <<>> THEN <<>>
    ELSE LET stripped == StripConnect(StripConnections(desc))
             cleaned_parts == CleanParts(Split(stripped, "middot"))
         IN  IF cleaned_parts # <<>>
             THEN Join(cleaned_parts, <<" ", "middot", " ">>)
             ELSE Strip(stripped)

(***************************************************************************)
(* The parsed page.  og and tw are the dicts _extract_og_tags and           *)
(* _extract_twitter_tags return (a key that is absent reads as ""),         *)
(* title_tag the text of <title>, meta_description the content of           *)
(* <meta name="description">, headings the texts of the <h1>/<h2> tags and  *)
(* images the src and alt of the <img> tags, in document order.  contact    *)
(* says whether the "Contact info" anchor and its container were found,     *)
(* p_texts holds the texts of the container's <p> tags, and roots and       *)
(* suffixes hold what the two patterns of _extract_linkedin_photo_url find  *)
(* in the markup (suffixes as <<size, capture>> pairs in document order).   *)
(***************************************************************************)
EmptyPage ==
    [og |-> [title |-> <<>>, description |-> <<>>, image |-> <<>>],
     tw |-> [title |-> <<>>, description |-> <<>>, image |-> <<>>, image_src |-> <<>>],
     title_tag |-> <<>>, meta_description |-> <<>>, headings |-> <<>>, images |-> <<>>,
     contact |-> FALSE, p_texts |-> <<>>, roots |-> <<>>, suffixes |-> <<>>]

\* Python's "a or b" on two strings
Or(a, b) == IF a # <<>> THEN a ELSE b

\* the elements of seq at the positions in kept, in order
Filter(seq, kept) ==
    [k \in 1..Cardinality(kept) |->
        seq[CHOOSE i \in kept : Cardinality({j \in kept : j <= i}) = k]]

(***************************************************************************)
(* _extract_linkedin_profile_text                                          *)
(***************************************************************************)
SkipTexts == {<<"c", "o", "n", "t", "a", "c", "t", " ", "i", "n", "f", "o">>, <<"h", "e", "/", "h", "i", "m">>, <<"s", "h", "e", "/", "h", "e", "r">>, <<"t", "h", "e", "y", "/", "t", "h", "e", "m">>, <<"m", "e", "s", "s", "a", "g", "e">>,
              <<"m", "o", "r", "e">>, <<"c", "o", "n", "n", "e", "c", "t">>, <<"f", "o", "l", "l", "o", "w">>, <<"p", "e", "n", "d", "i", "n", "g">>}

\* the run of characters of [\s middot Acirc] that starts at position p
RECURSIVE DotRunAt(_, _)
DotRunAt(s, p) ==
    IF p <= Len(s) /\ (IsSpace(s[p]) \/ s[p] \in {"middot", "Acirc"})
    THEN 1 + DotRunAt(s, p + 1) ELSE 0

\* line 229
IsDegreeMarker(text) ==
    LET a == 1 + DotRunAt(text, 1)
        b == a + DigitRunAt(text, a)
    IN  \/ WordAt(text, a, <<<<"1", "s", "t">>, <<"2", "n", "d">>, <<"3", "r", "d">>>>) > 0
        \/ b > a /\ MatchAt(text, <<"t", "h">>, b)

\* lines 222-233: whether a paragraph's text is kept as a field
IsProfileField(text, name) ==
    /\ text # <<>>
    /\ Len(text) >= 3
    /\ Len(text) <= 200
    /\ LowerStr(text) \notin SkipTexts
    /\ ~(name # <<>> /\ LowerStr(text) = LowerStr(name))
    /\ ~IsDegreeMarker(text)
    /\ ~(DotRunAt(text, 1) > 0 /\ Len(text) < 15)

_extract_linkedin_profile_text(sp, name) ==
    LET keep(text) == IsProfileField(text, name)
        fields == IF sp.contact THEN Filter(sp.p_texts, {i \in 1..Len(sp.p_texts) : keep(sp.p_texts[i])}) ELSE <<>>
    IN  [headline |-> IF Len(fields) >= 1 THEN fields[1] ELSE <<>>,
         company |-> IF Len(fields) >= 2 THEN fields[2] ELSE <<>>,
         location |-> IF Len(fields) >= 3 THEN fields[3] ELSE <<>>]

(***************************************************************************)
(* _extract_linkedin_photo_url                                             *)
(***************************************************************************)
\* line 254: the sizes, in the order they are tried
\* fault variant of PhotoSizes: 800x800 left out
SizesUpTo400 == <<<<"4", "0", "0", "_", "4", "0", "0">>, <<"2", "0", "0", "_", "2", "0", "0">>, <<"1", "0", "0", "_", "1", "0", "0">>>>

\* line 254
PhotoSizes == <<<<"4", "0", "0", "_", "4", "0", "0">>, <<"8", "0", "0", "_", "8", "0", "0">>, <<"2", "0", "0", "_", "2", "0", "0">>, <<"1", "0", "0", "_", "1", "0", "0">>>>

\* line 260: unicode_escape decoding turns the escape & into "&"
Unescape(s) == Replace(s, <<"\\", "u", "0", "0", "2", "6">>, <<"&">>)

RECURSIVE FirstPhotoUrl(_, _, _)
FirstPhotoUrl(sizes, roots, found) ==
    IF sizes = <<>> THEN <<>>
    ELSE LET size == Head(sizes)
             isSize(f) == f[1] = size
             suffixes == Filter(found, {i \in 1..Len(found) : isSize(found[i])})
         IN  IF suffixes # <<>>
             THEN Unescape(roots[1] \o <<"s", "h", "r", "i", "n", "k", "_">> \o size \o suffixes[1][2])
             ELSE FirstPhotoUrl(Tail(sizes), roots, found)

_extract_linkedin_photo_url(sp) ==
    IF sp.roots = <<>> THEN <<>> ELSE FirstPhotoUrl(PhotoSizes, sp.roots, sp.suffixes)

(***************************************************************************)
(* _scrape_linkedin                                                        *)
(***************************************************************************)
_scrape_linkedin(u, sp) ==
    LET raw_name == IF Or(sp.og.title, sp.tw.title) # <<>>
                    THEN Or(sp.og.title, sp.tw.title) ELSE sp.title_tag
        name == _clean_name(raw_name, "linkedin")
        raw_desc == Or(sp.og.description, sp.tw.description)
        description == _clean_linkedin_description(raw_desc)
        is_authenticated_page == sp.og.description = <<>>
        profile_text == _extract_linkedin_profile_text(sp, name)
        from_profile == /\ is_authenticated_page
                        /\ profile_text.headline # <<>>
                        /\ description = <<>>
        profile_desc == IF profile_text.company # <<>>
                        THEN Join(<<profile_text.headline, profile_text.company>>,
                                  <<" ", "middot", " ">>)
                        ELSE profile_text.headline
        meta_image == Or(sp.og.image, sp.tw.image)
        image_url == IF _is_valid_profile_image(meta_image) THEN meta_image ELSE <<>>
    IN  [name |-> name,
         raw_description |-> IF from_profile THEN profile_desc ELSE raw_desc,
         description |-> IF from_profile THEN profile_desc ELSE description,
         image_url |-> IF image_url = <<>> /\ is_authenticated_page
                       THEN _extract_linkedin_photo_url(sp) ELSE image_url]

(***************************************************************************)
(* _scrape_twitter, _scrape_instagram, _scrape_facebook                    *)
(***************************************************************************)
IsWordChar(c) == IsAlpha(c) \/ IsDigit(c) \/ c = "_"
RECURSIVE WordRunAt(_, _)
WordRunAt(s, p) ==
    IF p <= Len(s) /\ IsWordChar(s[p]) THEN 1 + WordRunAt(s, p + 1) ELSE 0

\* "\(@\w+\)" matches at position p
HandleAt(s, p) ==
    /\ MatchAt(s, <<"(", "@">>, p)
    /\ WordRunAt(s, p + 2) > 0
    /\ MatchAt(s, <<")">>, p + 2 + WordRunAt(s, p + 2))

\* re.match(r"^(.+?)\s*\(@\w+\)", raw_name): the length of group 1, 0 for no match
DisplayNameLen(raw_name) ==
    LET ok(q) == /\ \A k \in 1..q : raw_name[k] # "\n"
                 /\ HandleAt(raw_name, q + 1 + SpaceRunAt(raw_name, q + 1))
    IN  IF \E q \in 1..Len(raw_name) : ok(q)
        THEN CHOOSE q \in 1..Len(raw_name) : ok(q) /\ \A r \in 1..(q - 1) : ~ok(r)
        ELSE 0

\* lines 312-315 and 337-342
DisplayName(raw_name, plat) ==
    IF DisplayNameLen(raw_name) > 0
    THEN Strip(Take(raw_name, DisplayNameLen(raw_name)))
    ELSE _clean_name(raw_name, plat)

_scrape_twitter(u, sp) ==
    LET raw_name == Or(sp.og.title, sp.tw.title)
        description == Or(sp.og.description, sp.tw.description)
        image_url == Or(Or(sp.og.image, sp.tw.image_src), sp.tw.image)
    IN  [name |-> DisplayName(raw_name, "twitter"),
         raw_description |-> description,
         description |-> description,
         image_url |-> Replace(image_url, <<"_", "2", "0", "0", "x", "2", "0", "0">>, <<"_", "4", "0", "0", "x", "4", "0", "0">>)]

\* re.search(r'["""](.+?)["""]', raw_desc): <<first, last>> of group 1, <<0, 0>> for
\* no match
QuotedBio(raw_desc) ==
    LET close(i, j) == /\ raw_desc[j] = "\""
                       /\ \A k \in (i + 1)..(j - 1) : raw_desc[k] # "\n"
        ok(i) == /\ raw_desc[i] = "\""
                 /\ \E j \in (i + 2)..Len(raw_desc) : close(i, j)
    IN  IF \E i \in 1..Len(raw_desc) : ok(i)
        THEN LET i == CHOOSE a \in 1..Len(raw_desc) : ok(a) /\ \A b \in 1..(a - 1) : ~ok(b)
                 j == CHOOSE a \in (i + 2)..Len(raw_desc) :
                        close(i, a) /\ \A b \in (i + 2)..(a - 1) : ~close(i, b)
             IN  <<i + 1, j - 1>>
        ELSE <<0, 0>>

_scrape_instagram(u, sp) ==
    LET raw_desc == sp.meta_description
        bio == QuotedBio(raw_desc)
    IN  [name |-> DisplayName(sp.og.title, "instagram"),
         raw_description |-> raw_desc,
         description |-> IF raw_desc = <<>> THEN <<>>
                         ELSE IF bio[1] # 0 THEN SubSeq(raw_desc, bio[1], bio[2])
                         ELSE raw_desc,
         image_url |-> Replace(sp.og.image, <<"s", "1", "0", "0", "x", "1", "0", "0">>, <<"s", "3", "2", "0", "x", "3", "2", "0">>)]

_scrape_facebook(u, sp) ==
    LET raw_desc == sp.og.description IN
    [name |-> _clean_name(sp.og.title, "facebook"),
     raw_description |-> raw_desc,
     description |-> IF raw_desc # <<>> /\ ~Contains(raw_desc, <<"i", "s", " ", "o", "n", " ", "F", "a", "c", "e", "b", "o", "o", "k">>)
                     THEN raw_desc ELSE <<>>,
     image_url |-> sp.og.image]

(***************************************************************************)
(* _collect_page_images and _find_profile_image_heuristic                  *)
(***************************************************************************)
\* the last position of c in s, 0 when c is not in s
LastIndexOf(s, c) ==
    IF \E i \in 1..Len(s) : s[i] = c
    THEN CHOOSE i \in 1..Len(s) : s[i] = c /\ \A j \in (i + 1)..Len(s) : s[j] # c
    ELSE 0

\* urllib.parse.urljoin(base, src) for an absolute base and a src that is
\* absolute, scheme-relative, rooted at "/" or relative to the base's directory
UrlJoin(base, src) ==
    LET pathAt == Find(Drop(base, Find(base, <<":", "/", "/">>) + 3), <<"/">>)
        authorityEnd == IF pathAt = 0 THEN Len(base)
                        ELSE Find(base, <<":", "/", "/">>) + 2 + pathAt - 1
        origin == Take(base, authorityEnd)
        scheme == Take(base, Find(base, <<":", "/", "/">>))
    IN  IF src = <<>> THEN base
        ELSE IF StartsWith(src, <<"h", "t", "t", "p", ":", "/", "/">>) \/ StartsWith(src, <<"h", "t", "t", "p", "s", ":", "/", "/">>) THEN src
        ELSE IF StartsWith(src, <<"/", "/">>) THEN scheme \o src
        ELSE IF StartsWith(src, <<"/">>) THEN origin \o src
        ELSE IF pathAt = 0 THEN origin \o <<"/">> \o src
        ELSE Take(base, LastIndexOf(base, "/")) \o src

_collect_page_images(sp, base_url) ==
    LET usable(img) == img.src # <<>> /\ ~StartsWith(img.src, <<"d", "a", "t", "a", ":">>)
        kept == Filter(sp.images, {i \in 1..Len(sp.images) : usable(sp.images[i])})
    IN  [i \in 1..Len(kept) |-> [src |-> UrlJoin(base_url, kept[i].src), alt |-> kept[i].alt]]

ProfileKeywords == {<<"p", "r", "o", "f", "i", "l", "e">>, <<"p", "h", "o", "t", "o">>, <<"h", "e", "a", "d", "s", "h", "o", "t">>, <<"a", "v", "a", "t", "a", "r">>, <<"p", "o", "r", "t", "r", "a", "i", "t">>,
                    <<"p", "f", "p">>}

_find_profile_image_heuristic(images, name) ==
    LET name_lower == LowerStr(name)
        hit(img) ==
            \/ name_lower # <<>> /\ Contains(LowerStr(img.alt), name_lower)
            \/ \E kw \in ProfileKeywords :
                 Contains(LowerStr(img.src), kw) \/ Contains(LowerStr(img.alt), kw)
        hits == Filter(images, {i \in 1..Len(images) : hit(images[i])})
    IN  IF hits # <<>> THEN hits[1].src ELSE <<>>

(***************************************************************************)
(* json.loads (llm.py line 117), for the JSON texts the model feeds it:    *)
(* null, true, false, integers, strings without escapes, lists of these,   *)
(* and objects whose values are strings or null.  A parse gives            *)
(* [ok, next, kind, truthy, fields]; ok = FALSE stands for JSONDecodeError.*)
(***************************************************************************)
JsonError == [ok |-> FALSE, next |-> 0, kind |-> "error", truthy |-> FALSE,
              str |-> <<>>, fields |-> [name |-> <<>>, context |-> <<>>, image_url |-> <<>>]]
JsonValue(next, kind, truthy, str) == [JsonError EXCEPT !.ok = TRUE, !.next = next, !.kind = kind,
                                                         !.truthy = truthy, !.str = str]

\* the first position from p on that holds no JSON whitespace
RECURSIVE JsonSkip(_, _)
JsonSkip(s, p) == IF p <= Len(s) /\ IsSpace(s[p]) THEN JsonSkip(s, p + 1) ELSE p

\* the position of the quote that closes the string whose text starts at p; 0 if none
RECURSIVE JsonStringEnd(_, _)
JsonStringEnd(s, p) ==
    IF p > Len(s) \/ s[p] \in {"\\", "\n", "\t", "\r"} THEN 0
    ELSE IF s[p] = "\"" THEN p
    ELSE JsonStringEnd(s, p + 1)

RECURSIVE JsonDigitsEnd(_, _)
JsonDigitsEnd(s, p) == IF p <= Len(s) /\ IsDigit(s[p]) THEN JsonDigitsEnd(s, p + 1) ELSE p

\* a number at p: an optional minus, then 0 or a run of digits not starting with 0
JsonNumber(s, p) ==
    LET d == IF p <= Len(s) /\ s[p] = "-" THEN p + 1 ELSE p
        e == IF d <= Len(s) /\ s[d] = "0" THEN d + 1 ELSE JsonDigitsEnd(s, d)
    IN  IF e = d \/ (e <= Len(s) /\ s[e] \in {".", "e", "E"}) THEN JsonError
        ELSE JsonValue(e, "number", \E i \in d..(e - 1) : s[i] # "0", <<>>)

JsonScalar(s, p) ==
    IF p > Len(s) THEN JsonError
    ELSE IF MatchAt(s, <<"n", "u", "l", "l">>, p) THEN JsonValue(p + 4, "null", FALSE, <<>>)
    ELSE IF MatchAt(s, <<"t", "r", "u", "e">>, p) THEN JsonValue(p + 4, "bool", TRUE, <<>>)
    ELSE IF MatchAt(s, <<"f", "a", "l", "s", "e">>, p) THEN JsonValue(p + 5, "bool", FALSE, <<>>)
    ELSE IF s[p] = "\""
         THEN LET e == JsonStringEnd(s, p + 1) IN
              IF e = 0 THEN JsonError
              ELSE JsonValue(e + 1, "string", e > p + 1, SubSeq(s, p + 1, e - 1))
    ELSE IF s[p] = "-" \/ IsDigit(s[p]) THEN JsonNumber(s, p)
    ELSE JsonError

\* the elements of a list from p on, up to its "]": the position after it, 0 on error
RECURSIVE JsonElements(_, _)
JsonElements(s, p) ==
    LET v == JsonScalar(s, p)
        q == JsonSkip(s, v.next)
    IN  IF ~v.ok \/ q > Len(s) THEN 0
        ELSE IF s[q] = "]" THEN q + 1
        ELSE IF s[q] = "," THEN JsonElements(s, JsonSkip(s, q + 1))
        ELSE 0

\* the members of an object from p on, up to its "}": the last value of a key wins
RECURSIVE JsonMembers(_, _, _)
JsonMembers(s, p, fields) ==
    LET k == JsonScalar(s, p)
        c == JsonSkip(s, k.next)
        v == JsonScalar(s, JsonSkip(s, c + 1))
        q == JsonSkip(s, v.next)
        key == IF k.str = <<"n", "a", "m", "e">> THEN "name"
               ELSE IF k.str = <<"c", "o", "n", "t", "e", "x", "t">> THEN "context"
               ELSE IF k.str = <<"i", "m", "a", "g", "e", "_", "u", "r", "l">> THEN "image_url"
               ELSE "other"
        now == IF key = "other" THEN fields ELSE [fields EXCEPT ![key] = v.str]
    IN  IF ~k.ok \/ k.kind # "string" \/ c > Len(s) THEN JsonError
        ELSE IF s[c] # ":" \/ ~v.ok \/ v.kind \notin {"string", "null"} \/ q > Len(s) THEN JsonError
        ELSE IF s[q] = "}" THEN [JsonValue(q + 1, "dict", TRUE, <<>>) EXCEPT !.fields = now]
        ELSE IF s[q] = "," THEN JsonMembers(s, JsonSkip(s, q + 1), now)
        ELSE JsonError

JsonAny(s, p) ==
    IF p > Len(s) THEN JsonError
    ELSE IF s[p] = "["
         THEN LET q == JsonSkip(s, p + 1)
                  e == IF q <= Len(s) /\ s[q] = "]" THEN q + 1 ELSE JsonElements(s, q)
              IN  IF e = 0 THEN JsonError ELSE JsonValue(e, "list", s[q] # "]", <<>>)
    ELSE IF s[p] = "{"
         THEN LET q == JsonSkip(s, p + 1) IN
              IF q <= Len(s) /\ s[q] = "}" THEN JsonValue(q + 1, "dict", FALSE, <<>>)
              ELSE JsonMembers(s, q, JsonError.fields)
    ELSE JsonScalar(s, p)

\* the value v parsed from the start of text, when nothing but whitespace follows it
JsonWhole(text, v) ==
    IF v.ok /\ JsonSkip(text, v.next) > Len(text) THEN v ELSE JsonError

JsonLoads(text) == JsonWhole(text, JsonAny(text, JsonSkip(text, 1)))

(***************************************************************************)
(* _call_claude and extract_profile_from_html (app/services/llm.py).  An   *)
(* outcome of the API call is [error, status, shape, text]: the exception  *)
(* requests.post raised ("none" for none), the status, whether the body    *)
(* is a message carrying a text block, and that text.                      *)
(***************************************************************************)
\* resp.raise_for_status() raises for a 4xx or 5xx status
RaisesForStatus(status) == 400 <= status /\ status < 600

NoText == [isNone |-> TRUE, text |-> <<>>]

\* llm.py lines 45-69
_call_claude(apiKey, outcome) ==
    IF ~apiKey THEN NoText
    ELSE IF outcome.error # "none" THEN NoText
    ELSE IF RaisesForStatus(outcome.status) THEN NoText
    ELSE IF outcome.shape # "message" THEN NoText
    ELSE [isNone |-> FALSE, text |-> Strip(outcome.text)]

\* s.rfind(sub) + 1
LastFind(s, sub) ==
    IF Contains(s, sub)
    THEN CHOOSE i \in 1..(Len(s) - Len(sub) + 1) :
            /\ MatchAt(s, sub, i)
            /\ \A j \in (i + 1)..Len(s) : ~MatchAt(s, sub, j)
    ELSE 0

\* llm.py lines 113-116
StripFences(text) ==
    LET fence == <<"backquote", "backquote", "backquote">>
        cleaned == Strip(text)
        opened == IF Contains(cleaned, <<"\n">>)
                  THEN Drop(cleaned, Find(cleaned, <<"\n">>) + 1)
                  ELSE Drop(cleaned, 4)
        last == LastFind(opened, fence)
    IN  IF ~StartsWith(cleaned, fence) THEN cleaned
        ELSE IF last = 0 THEN opened
        ELSE Take(opened, last - 1)

\* what extract_profile_from_html returned: None, a dict, or (json.loads of text
\* that is JSON but no object) a value that is no dict
LlmNone == [kind |-> "none", truthy |-> FALSE,
            name |-> <<>>, context |-> <<>>, image_url |-> <<>>]

\* llm.py lines 82-119
\* llm.py lines 117-119: what json.loads gave or raised
LoadsResult(parsed) ==
    IF ~parsed.ok \/ parsed.kind = "null" THEN LlmNone
    ELSE IF parsed.kind = "dict"
         THEN [kind |-> "dict", truthy |-> parsed.truthy,
               name |-> parsed.fields.name, context |-> parsed.fields.context,
               image_url |-> parsed.fields.image_url]
    ELSE [LlmNone EXCEPT !.kind = "nonobject", !.truthy = parsed.truthy]

\* llm.py lines 108-119
ReplyResult(reply) ==
    IF reply.isNone \/ reply.text = <<>> THEN LlmNone
    ELSE LoadsResult(JsonLoads(StripFences(reply.text)))

\* llm.py lines 82-119
extract_profile_from_html(apiKey, outcome) ==
    IF ~apiKey THEN LlmNone
    ELSE ReplyResult(_call_claude(apiKey, outcome))

\* line 459: "if llm_result"
LlmTruthy(llm) == llm.truthy

(***************************************************************************)
(* _scrape_generic, in its three stages                                    *)
(***************************************************************************)
\* lines 432-444
GenericOG(u, sp) ==
    LET raw_name == IF Or(sp.og.title, sp.tw.title) # <<>>
                    THEN Or(sp.og.title, sp.tw.title) ELSE sp.title_tag
    IN  [name |-> _clean_name(raw_name, "other"),
         description |-> Or(sp.og.description, sp.tw.description),
         image_url |-> Or(sp.og.image, sp.tw.image),
         page_images |-> _collect_page_images(sp, u),
         llm_result |-> LlmNone]

\* fault variant of OGComplete: the early return never taken
OGNeverComplete(g) == FALSE

\* line 447
OGComplete(g) == g.name # <<>> /\ g.description # <<>> /\ g.image_url # <<>>

\* fault variant of GenericLLM: the LLM's values taken whatever is already there
LlmOverwrites(g, llm) ==
    IF ~LlmTruthy(llm) THEN g
    ELSE [g EXCEPT !.name = IF llm.name # <<>> THEN llm.name ELSE @,
                   !.description = IF llm.context # <<>> THEN llm.context ELSE @,
                   !.image_url = IF llm.image_url # <<>> THEN llm.image_url ELSE @]

\* lines 459-465, for a dict or None
GenericLLM(g, llm) ==
    IF ~LlmTruthy(llm) THEN g
    ELSE [g EXCEPT !.name = IF g.name = <<>> /\ llm.name # <<>> THEN llm.name ELSE @,
                   !.description = IF g.description = <<>> /\ llm.context # <<>>
                                   THEN llm.context ELSE @,
                   !.image_url = IF g.image_url = <<>> /\ llm.image_url # <<>>
                                 THEN llm.image_url ELSE @]

\* lines 468-473
HeadingName(sp) ==
    LET fits(text) == 2 < Len(text) /\ Len(text) < 60
        hits == Filter(sp.headings, {i \in 1..Len(sp.headings) : fits(sp.headings[i])})
    IN  IF hits # <<>> THEN hits[1] ELSE <<>>

\* lines 468-476
GenericHeuristics(g, sp) ==
    LET name == IF g.name = <<>> THEN HeadingName(sp) ELSE g.name IN
    [g EXCEPT !.name = name,
              !.image_url = IF g.image_url = <<>>
                            THEN _find_profile_image_heuristic(g.page_images, name)
                            ELSE @]

\* lines 448-453 and 478-483
GenericResult(g) ==
    [name |-> g.name, raw_description |-> g.description,
     description |-> g.description, image_url |-> g.image_url]

(***************************************************************************)
(* _detect_platform and the URL normalisation of scrape_url                *)
(***************************************************************************)
\* fault variant of _detect_platform: the URL compared without lower()
DetectCaseSensitive(u) ==
    IF Contains(u, <<"l", "i", "n", "k", "e", "d", "i", "n", ".", "c", "o", "m">>) THEN "linkedin"
    ELSE IF Contains(u, <<"t", "w", "i", "t", "t", "e", "r", ".", "c", "o", "m">>) \/ Contains(u, <<"x", ".", "c", "o", "m">>) THEN "twitter"
    ELSE IF Contains(u, <<"i", "n", "s", "t", "a", "g", "r", "a", "m", ".", "c", "o", "m">>) THEN "instagram"
    ELSE IF Contains(u, <<"f", "a", "c", "e", "b", "o", "o", "k", ".", "c", "o", "m">>) \/ Contains(u, <<"f", "b", ".", "c", "o", "m">>) THEN "facebook"
    ELSE "other"

_detect_platform(u) ==
    LET url_lower == LowerStr(u) IN
    IF Contains(url_lower, <<"l", "i", "n", "k", "e", "d", "i", "n", ".", "c", "o", "m">>) THEN "linkedin"
    ELSE IF Contains(url_lower, <<"t", "w", "i", "t", "t", "e", "r", ".", "c", "o", "m">>) \/ Contains(url_lower, <<"x", ".", "c", "o", "m">>)
    THEN "twitter"
    ELSE IF Contains(url_lower, <<"i", "n", "s", "t", "a", "g", "r", "a", "m", ".", "c", "o", "m">>) THEN "instagram"
    ELSE IF Contains(url_lower, <<"f", "a", "c", "e", "b", "o", "o", "k", ".", "c", "o", "m">>) \/ Contains(url_lower, <<"f", "b", ".", "c", "o", "m">>)
    THEN "facebook"
    ELSE "other"

_BOT_UA_PLATFORMS == {"twitter", "instagram", "facebook"}

\* lines 494-495
NormalizeScheme(u) ==
    IF StartsWith(u, <<"h", "t", "t", "p", ":", "/", "/">>) \/ StartsWith(u, <<"h", "t", "t", "p", "s", ":", "/", "/">>) THEN u
    ELSE <<"h", "t", "t", "p", "s", ":", "/", "/">> \o u

\* line 500: the position of the handle the pattern captures, 0 for no match
HandleStart(u) ==
    LET at(p) == IF MatchAt(u, <<"t", "w", "i", "t", "t", "e", "r", ".", "c", "o", "m", "/">>, p) THEN p + 12
                 ELSE IF MatchAt(u, <<"x", ".", "c", "o", "m", "/">>, p) THEN p + 6
                 ELSE 0
        ok(p) == at(p) # 0 /\ WordRunAt(u, at(p)) > 0
    IN  IF \E p \in 1..Len(u) : ok(p)
        THEN at(CHOOSE p \in 1..Len(u) : ok(p) /\ \A q \in 1..(p - 1) : ~ok(q))
        ELSE 0

\* lines 499-502
CanonicalUrl(u, plat) ==
    IF plat = "twitter" /\ HandleStart(u) # 0
    THEN <<"h", "t", "t", "p", "s", ":", "/", "/", "x", ".", "c", "o", "m", "/">> \o SubSeq(u, HandleStart(u), HandleStart(u) + WordRunAt(u, HandleStart(u)) - 1)
    ELSE u

(***************************************************************************)
(* Values shared by the handler and the downloader.                        *)
(***************************************************************************)
reqVars == <<cfg, pc, data, req, url, platform, cookies, botUA, pageResp, warnings,
             face_filename, response>>
scrVars == <<spc, soup, gen, result>>
handlerVars == <<reqVars, scrVars>>
dlVars == <<dlpc, dl_url, dl_cookies, imgResp, tmp, total_bytes, remaining, dlReturn>>
diskVars == <<tmpFiles, tmpCount, media>>

\* the second component of _download_image's tuple; NoError is None
NoError == [kind |-> "none", detail |-> <<>>]
Err(kind, detail) == [kind |-> kind, detail |-> detail]

\* LINKEDIN_LI_AT and ANTHROPIC_API_KEY, each set or not
Configs == [cookie : BOOLEAN, apiKey : BOOLEAN]

NoResp == [status |-> 0, authwall |-> FALSE]
NoResult == [name |-> <<>>, raw_description |-> <<>>, description |-> <<>>,
             image_url |-> <<>>]
NoResponse == [status |-> 0, body |-> <<>>]
NoGen == [name |-> <<>>, description |-> <<>>, image_url |-> <<>>, page_images |-> <<>>,
          llm_result |-> LlmNone]
NoImgResp == [status |-> 0, ctype |-> <<>>, clen |-> [present |-> FALSE, value |-> <<>>]]
NoTmp == [id |-> 0, ext |-> <<>>]
NoReturn == [filename |-> 0, error |-> NoError, raised |-> "none"]

\* requests.RequestException subclasses a fetch raises
FetchErrors == {"ConnectTimeout", "ConnectionError"}
\* str(e) of a requests exception names the URL it was raised for
ExcText(e, u) == <<"e", "r", "r", "o", "r", " ", "f", "o", "r", " ", "u", "r", "l", ":", " ">> \o u
\* str(e) of the HTTPError of raise_for_status: "<status> ... Error: ... for url: <url>"
HTTPErrorText(status, u) == Digits(status) \o <<" ", "E", "r", "r", "o", "r", " ", "f", "o", "r", " ", "u", "r", "l", ":", " ">> \o u

(***************************************************************************)
(* What the image server may answer.  With stream=True the fetch returns   *)
(* once the status and the headers are read; the body arrives while        *)
(* iter_content is consumed.                                               *)
(***************************************************************************)
ImageStatuses == {200, 403, 500, 999}
ContentTypes == {<<>>, <<"t", "e", "x", "t", "/", "h", "t", "m", "l">>, <<"i", "m", "a", "g", "e", "/", "j", "p", "e", "g">>, <<"i", "m", "a", "g", "e", "/", "p", "n", "g">>,
                 <<"i", "m", "a", "g", "e", "/", "s", "v", "g", "+", "x", "m", "l">>, <<"i", "m", "a", "g", "e", "/", "b", "m", "p">>}
ContentLengths == {[present |-> FALSE, value |-> <<>>],
                   [present |-> TRUE, value |-> <<>>],
                   [present |-> TRUE, value |-> <<"0">>],
                   [present |-> TRUE, value |-> <<"9", "9", "9">>],
                   [present |-> TRUE, value |-> <<"1", "0", "0", "0">>],
                   [present |-> TRUE, value |-> <<"a", "b", "c">>]}
ImageResponses == [status : ImageStatuses, ctype : ContentTypes, clen : ContentLengths]

MinHeaderBytes == 1000
MinBodyBytes == 1000
ChunkSize == 8192
BodySizes == {0, MinBodyBytes - 1, MinBodyBytes, MaxBodyLen}

ImageUrls == {<<>>, <<"h", "t", "t", "p", "s", ":", "/", "/", "c", "/", "a", ".", "j", "p", "g">>, <<"h", "t", "t", "p", "s", ":", "/", "/", "c", "/", "4", "0", "3", ".", "j", "p", "g">>, <<"h", "t", "t", "p", "s", ":", "/", "/", "c", "/", "G", "H", "O", "S", "T", ".", "p", "n", "g">>, <<"h", "t", "t", "p", "s", ":", "/", "/", "c", "/", "g", "h", "o">>,
              <<"h", "t", "t", "p", "s", ":", "/", "/", "c", "/", "D", "e", "f", "a", "u", "l", "t">>, <<"h", "t", "t", "p", "s", ":", "/", "/", "c", "/", "a", "e", "r", "o", "-", "v", "1", "/", "s", "c", "/", "h", "/", "x">>, <<"h", "t", "t", "p", "s", ":", "/", "/", "c", "/", "p", "l", "a", "c", "e", "h", "o", "l", "d", "e", "r">>,
              <<"h", "t", "t", "p", "s", ":", "/", "/", "c", "/", "n", "o", "-", "p", "h", "o", "t", "o">>, <<"h", "t", "t", "p", "s", ":", "/", "/", "c", "/", "n", "o", "_", "p", "h", "o", "t", "o">>, <<"h", "t", "t", "p", "s", ":", "/", "/", "c", "/", "n", "o", "p", "h", "o", "t", "o">>}

(***************************************************************************)
(* save_and_optimize (app/services/images.py): Image.open raises for a     *)
(* file that is no decodable image; otherwise the image is saved under a   *)
(* fresh uuid4 name in MEDIA_DIR.                                          *)
(***************************************************************************)
save_and_optimize(decodable, store) ==
    IF decodable
    THEN LET filename == Cardinality(store) + 1 IN
         [raised |-> "none", filename |-> filename, media |-> store \cup {filename}]
    ELSE [raised |-> "UnidentifiedImageError", filename |-> 0, media |-> store]

(***************************************************************************)
(* _download_image                                                         *)
(***************************************************************************)
DlReturns(filename, error) ==
    /\ dlpc' = "returned"
    /\ dlReturn' = [filename |-> filename, error |-> error, raised |-> "none"]

DlRaises(exception) ==
    /\ dlpc' = "raised"
    /\ dlReturn' = [filename |-> 0, error |-> NoError, raised |-> exception]

\* fault variant of FilterRejects: the filter not consulted
FilterRejectsNothing(image_url) == FALSE

\* line 126
FilterRejects(image_url) == ~_is_valid_profile_image(image_url)

\* lines 123-127
DlStart ==
    /\ dlpc = "called"
    /\ IF dl_url = <<>> THEN DlReturns(0, Err("no_url", <<>>))
       ELSE IF FilterRejects(dl_url) THEN DlReturns(0, Err("placeholder", <<>>))
       ELSE dlpc' = "fetch" /\ UNCHANGED dlReturn
    /\ UNCHANGED <<dl_url, dl_cookies, imgResp, tmp, total_bytes, remaining>>
    /\ UNCHANGED <<handlerVars, diskVars, log>>

\* fault variant of Issue: the call made again after the first attempt
IssueWithRetry(calls, call) == calls \o <<call, call>>

\* one network call is made (requests.get at lines 129-135 and 515-517,
\* requests.post at llm.py lines 51-65): it is recorded once
Issue(calls, call) == Append(calls, call)

\* lines 129-138 and the except clause of line 185
DlFetch(Responses) ==
    /\ dlpc = "fetch"
    /\ log' = Issue(log, [call |-> "image", url |-> dl_url, cookies |-> dl_cookies,
                          botUA |-> FALSE])
    /\ \/ \E e \in FetchErrors :
            /\ DlReturns(0, Err("download_failed", ExcText(e, dl_url)))
            /\ UNCHANGED imgResp
       \/ \E r \in Responses :
            /\ imgResp' = r
            /\ IF RaisesForStatus(r.status)
               THEN DlReturns(0, Err("download_failed", HTTPErrorText(r.status, dl_url)))
               ELSE dlpc' = "headers" /\ UNCHANGED dlReturn
    /\ UNCHANGED <<dl_url, dl_cookies, tmp, total_bytes, remaining>>
    /\ UNCHANGED <<handlerVars, diskVars>>

\* fault variant of NotAnImage: the content type not looked at
ContentTypeUnchecked(content_type) == FALSE
\* line 141
NotAnImage(content_type) == ~StartsWith(content_type, <<"i", "m", "a", "g", "e", "/">>)
\* fault variant of IsSvg: equality with "svg" in place of containment
IsSvgExact(content_type) == content_type = <<"s", "v", "g">>
\* line 144
IsSvg(content_type) == Contains(content_type, <<"s", "v", "g">>)
\* line 148: "skip", "ValueError", "reject" or "pass"
ContentLengthCheck(content_length) ==
    IF ~content_length.present \/ content_length.value = <<>> THEN "skip"
    ELSE LET n == ParseInt(content_length.value) IN
         IF ~n.ok THEN "ValueError"
         ELSE IF n.val < MinHeaderBytes THEN "reject" ELSE "pass"

\* lines 140-149
DlHeaders ==
    /\ dlpc = "headers"
    /\ LET content_type == imgResp.ctype
           content_length == imgResp.clen
       IN  IF NotAnImage(content_type)
           THEN DlReturns(0, Err("not_image", content_type))
           ELSE IF IsSvg(content_type)
           THEN DlReturns(0, Err("svg", <<>>))
           ELSE IF ContentLengthCheck(content_length) = "ValueError"
           THEN DlRaises("ValueError")
           ELSE IF ContentLengthCheck(content_length) = "reject"
           THEN DlReturns(0, Err("too_small_header", <<>>))
           ELSE dlpc' = "tmp" /\ UNCHANGED dlReturn
    /\ UNCHANGED <<dl_url, dl_cookies, imgResp, tmp, total_bytes, remaining>>
    /\ UNCHANGED <<handlerVars, diskVars, log>>

\* lines 151-160
Ext(content_type) ==
    IF Contains(content_type, <<"j", "p", "e", "g">>) \/ Contains(content_type, <<"j", "p", "g">>) THEN <<"j", "p", "g">>
    ELSE IF Contains(content_type, <<"p", "n", "g">>) THEN <<"p", "n", "g">>
    ELSE IF Contains(content_type, <<"w", "e", "b", "p">>) THEN <<"w", "e", "b", "p">>
    ELSE IF Contains(content_type, <<"g", "i", "f">>) THEN <<"g", "i", "f">>
    ELSE <<"j", "p", "g">>

\* lines 151-166: NamedTemporaryFile(delete=False) creates the file
DlCreateTmp(Bodies) ==
    /\ dlpc = "tmp"
    /\ tmp' = [id |-> tmpCount + 1, ext |-> Ext(imgResp.ctype)]
    /\ tmpCount' = tmpCount + 1
    /\ tmpFiles' = tmpFiles \cup {tmpCount + 1}
    /\ total_bytes' = 0
    /\ \E body \in Bodies : remaining' = body
    /\ dlpc' = "stream"
    /\ UNCHANGED <<dl_url, dl_cookies, imgResp, dlReturn, media>>
    /\ UNCHANGED <<handlerVars, log>>

\* lines 167-169, one chunk
DlStreamChunk ==
    /\ dlpc = "stream"
    /\ remaining > 0
    /\ LET chunk == IF remaining < ChunkSize THEN remaining ELSE ChunkSize IN
       /\ total_bytes' = total_bytes + chunk
       /\ remaining' = remaining - chunk
    /\ UNCHANGED <<dlpc, dl_url, dl_cookies, imgResp, tmp, dlReturn>>
    /\ UNCHANGED <<handlerVars, diskVars, log>>

\* line 167 raising (ChunkedEncodingError, ConnectionError: the connection broke
\* while the body was read), caught at line 185
DlStreamError ==
    /\ dlpc = "stream"
    /\ DlReturns(0, Err("download_failed", ExcText("ChunkedEncodingError", dl_url)))
    /\ UNCHANGED <<dl_url, dl_cookies, imgResp, tmp, total_bytes, remaining>>
    /\ UNCHANGED <<handlerVars, diskVars, log>>

\* fault variant of TooSmall: the threshold one byte lower
TooSmallOffByOne(total) == total < MinBodyBytes - 1

\* line 172
TooSmall(total) == total < MinBodyBytes

\* lines 170-174
DlStreamEnd ==
    /\ dlpc = "stream"
    /\ remaining = 0
    /\ IF TooSmall(total_bytes)
       THEN /\ tmpFiles' = tmpFiles \ {tmp.id}
            /\ DlReturns(0, Err("too_small_download", <<>>))
       ELSE /\ dlpc' = "optimize"
            /\ UNCHANGED <<tmpFiles, dlReturn>>
    /\ UNCHANGED <<dl_url, dl_cookies, imgResp, tmp, total_bytes, remaining>>
    /\ UNCHANGED <<handlerVars, tmpCount, media, log>>

\* lines 176-184
DlOptimize ==
    /\ dlpc = "optimize"
    /\ \E decodable \in BOOLEAN :
         LET saved == save_and_optimize(decodable, media) IN
         /\ media' = saved.media
         /\ tmpFiles' = tmpFiles \ {tmp.id}
         /\ IF saved.raised = "none"
            THEN DlReturns(saved.filename, NoError)
            ELSE DlRaises(saved.raised)
    /\ UNCHANGED <<dl_url, dl_cookies, imgResp, tmp, total_bytes, remaining>>
    /\ UNCHANGED <<handlerVars, tmpCount, log>>

_download_image(Responses, Bodies) ==
    \/ DlStart
    \/ DlFetch(Responses)
    \/ DlHeaders
    \/ DlCreateTmp(Bodies)
    \/ DlStreamChunk
    \/ DlStreamError
    \/ DlStreamEnd
    \/ DlOptimize

(***************************************************************************)
(* The platform scrapers as steps.  _scrape_generic calls the LLM fallback *)
(* extractor between its OpenGraph stage and its heuristics; the other     *)
(* four scrapers are one step each.                                        *)
(***************************************************************************)
LogEntry(call, u, c, bot) == [call |-> call, url |-> u, cookies |-> c, botUA |-> bot]

\* lines 548-555
ScrapePlatform ==
    /\ spc = "called"
    /\ platform # "other"
    /\ result' = CASE platform = "linkedin" -> _scrape_linkedin(url, soup)
                   [] platform = "twitter" -> _scrape_twitter(url, soup)
                   [] platform = "instagram" -> _scrape_instagram(url, soup)
                   [] OTHER -> _scrape_facebook(url, soup)
    /\ spc' = "returned"
    /\ UNCHANGED <<soup, gen>>
    /\ UNCHANGED <<reqVars, dlVars, diskVars, log>>

\* lines 432-453
ScrapeGenericOG ==
    /\ spc = "called"
    /\ platform = "other"
    /\ LET g == GenericOG(url, soup) IN
       /\ gen' = g
       /\ IF OGComplete(g)
          THEN result' = GenericResult(g) /\ spc' = "returned"
          ELSE spc' = "llm" /\ UNCHANGED result
    /\ UNCHANGED soup
    /\ UNCHANGED <<reqVars, dlVars, diskVars, log>>

\* lines 456-465: extract_profile_from_html is called; it reaches the network
\* only when an API key is configured (llm.py lines 95-96), and the AttributeError
\* of "llm_result.get" on a truthy value that is no dict is caught nowhere
ScrapeGenericLLM(Outcomes) ==
    /\ spc = "llm"
    /\ \E outcome \in Outcomes :
       \E llm_result \in {extract_profile_from_html(cfg.apiKey, outcome)} :
         /\ log' = IF cfg.apiKey
                   THEN Issue(Append(log, LogEntry("extract", url, {}, FALSE)),
                              LogEntry("llm", url, {}, FALSE))
                   ELSE Append(log, LogEntry("extract", url, {}, FALSE))
         /\ IF LlmTruthy(llm_result) /\ llm_result.kind # "dict"
            THEN spc' = "raised" /\ gen' = [gen EXCEPT !.llm_result = llm_result]
            ELSE /\ spc' = "heuristics"
                 /\ gen' = [GenericLLM(gen, llm_result) EXCEPT !.llm_result = llm_result]
    /\ UNCHANGED <<soup, result>>
    /\ UNCHANGED <<reqVars, dlVars, diskVars>>

\* lines 467-483
ScrapeGenericFallbacks ==
    /\ spc = "heuristics"
    /\ gen' = GenericHeuristics(gen, soup)
    /\ result' = GenericResult(GenericHeuristics(gen, soup))
    /\ spc' = "returned"
    /\ UNCHANGED soup
    /\ UNCHANGED <<reqVars, dlVars, diskVars, log>>

\* lines 430-483
_scrape_generic(Outcomes) ==
    \/ ScrapeGenericOG
    \/ ScrapeGenericLLM(Outcomes)
    \/ ScrapeGenericFallbacks

Scraper(Outcomes) ==
    \/ ScrapePlatform
    \/ _scrape_generic(Outcomes)

(***************************************************************************)
(* scrape_url                                                              *)
(***************************************************************************)
\* jsonify({"error": ...}), 400
Error400(kind, hint) ==
    [status |-> 400, body |-> [error |-> [kind |-> kind, hint |-> hint]]]

\* an exception no handler catches: Flask answers 500
Unhandled(exception) == [status |-> 500, body |-> [exception |-> exception]]

\* line 587
ContextLimit == 300
\* fault variant of Truncate: the slice one character too long
TruncateOffByOne(description) == Take(description, ContextLimit + 1)
Truncate(description) == Take(description, ContextLimit)

\* fault variant of AppendWarning: the warning inserted at the front
PrependWarning(list, warning) == <<warning>> \o list

\* list.append of lines 560, 563, 574, 580 and 582
AppendWarning(list, warning) == Append(list, warning)

\* line 569
Mentions403(error) == Contains(error.detail, <<"4", "0", "3">>)

\* lines 489-512
\* fault variant of RequestCookies: the cookie sent whatever the platform
CookiesWheneverConfigured(plat, configured) == IF configured THEN {"li_at"} ELSE {}

\* lines 510-512: the cookies dict, as the set of its keys
RequestCookies(plat, configured) ==
    IF plat = "linkedin" /\ configured THEN {"li_at"} ELSE {}

StartRequest(Urls) ==
    /\ pc \in {"idle", "done"}
    /\ req < MaxRequests
    /\ req' = req + 1
    /\ \E raw \in Urls :
        LET stripped == Strip(raw)
            normalized == NormalizeScheme(stripped)
            plat == _detect_platform(normalized)
        IN  /\ data' = raw
            /\ IF stripped = <<>>
               THEN /\ response' = Error400("url_required", "none")
                    /\ pc' = "done"
                    /\ url' = stripped
                    /\ platform' = "none"
                    /\ botUA' = FALSE
                    /\ cookies' = {}
               ELSE /\ response' = NoResponse
                    /\ pc' = "fetch"
                    /\ url' = CanonicalUrl(normalized, plat)
                    /\ platform' = plat
                    /\ botUA' = (plat \in _BOT_UA_PLATFORMS)
                    /\ cookies' = RequestCookies(plat, cfg.cookie)
    /\ warnings' = <<>>
    /\ face_filename' = 0
    /\ pageResp' = NoResp
    /\ spc' = "idle"
    /\ soup' = EmptyPage
    /\ gen' = NoGen
    /\ result' = NoResult
    /\ dlpc' = "idle"
    /\ dl_url' = <<>>
    /\ dl_cookies' = {}
    /\ imgResp' = NoImgResp
    /\ tmp' = NoTmp
    /\ total_bytes' = 0
    /\ remaining' = 0
    /\ dlReturn' = NoReturn
    /\ log' = <<>>
    /\ UNCHANGED <<cfg, diskVars>>

\* fault variant of FetchFailed: the error body without the 400 status
FetchFailedDefaultStatus(e) == [Error400("fetch_failed", e) EXCEPT !.status = 200]

\* lines 514-519
FetchFailed(e) == Error400("fetch_failed", e)

FetchPage(Responses) ==
    /\ pc = "fetch"
    /\ log' = Issue(log, LogEntry("page", url, cookies, botUA))
    /\ \/ \E e \in FetchErrors :
            /\ response' = FetchFailed(e)
            /\ pc' = "done"
            /\ UNCHANGED pageResp
       \/ \E r \in Responses :
            /\ pageResp' = r
            /\ pc' = "check"
            /\ UNCHANGED response
    /\ UNCHANGED <<cfg, data, req, url, platform, cookies, botUA, warnings, face_filename>>
    /\ UNCHANGED <<scrVars, dlVars, diskVars>>

\* lines 521-523
IsLinkedInBlock(resp, plat) ==
    resp.status = 999 \/ (plat = "linkedin" /\ resp.authwall)

\* lines 521-544
CheckResponse ==
    /\ pc = "check"
    /\ IF IsLinkedInBlock(pageResp, platform)
       THEN /\ response' = Error400("linkedin_block",
                                    IF ~cfg.cookie THEN "set_cookie" ELSE "cookie_expired")
            /\ pc' = "done"
       ELSE IF pageResp.status = 404
       THEN /\ response' = Error400("not_found",
                                    IF platform = "twitter" THEN "handle" ELSE "none")
            /\ pc' = "done"
       ELSE IF pageResp.status >= 400
       THEN /\ response' = Error400("http_error", "status")
            /\ pc' = "done"
       ELSE /\ pc' = "parse"
            /\ UNCHANGED response
    /\ UNCHANGED <<cfg, data, req, url, platform, cookies, botUA, pageResp, warnings, face_filename>>
    /\ UNCHANGED <<scrVars, dlVars, diskVars, log>>

\* lines 546-557: the page is parsed and the platform's scraper is called
ParsePage(Pages) ==
    /\ pc = "parse"
    /\ \E page \in Pages[platform] : soup' = page
    /\ spc' = "called"
    /\ pc' = "scraping"
    /\ UNCHANGED <<gen, result>>
    /\ UNCHANGED <<cfg, data, req, url, platform, cookies, botUA, pageResp, warnings,
                   face_filename, response>>
    /\ UNCHANGED <<dlVars, diskVars, log>>

\* the scraper returned, or raised
ScraperDone ==
    /\ pc = "scraping"
    /\ spc \in {"returned", "raised"}
    /\ IF spc = "raised"
       THEN response' = Unhandled("AttributeError") /\ pc' = "done"
       ELSE pc' = "warn_name" /\ UNCHANGED response
    /\ UNCHANGED <<cfg, data, req, url, platform, cookies, botUA, pageResp, warnings, face_filename>>
    /\ UNCHANGED <<scrVars, dlVars, diskVars, log>>

\* lines 559-560
WarnName ==
    /\ pc = "warn_name"
    /\ warnings' = IF result.name = <<>>
                   THEN AppendWarning(warnings, Err("no_name", <<>>)) ELSE warnings
    /\ pc' = "warn_description"
    /\ UNCHANGED <<cfg, data, req, url, platform, cookies, botUA, pageResp, face_filename, response>>
    /\ UNCHANGED <<scrVars, dlVars, diskVars, log>>

\* lines 562-563
WarnDescription ==
    /\ pc = "warn_description"
    /\ warnings' = IF result.description = <<>>
                   THEN AppendWarning(warnings, Err("no_description", <<>>)) ELSE warnings
    /\ pc' = "image"
    /\ UNCHANGED <<cfg, data, req, url, platform, cookies, botUA, pageResp, face_filename, response>>
    /\ UNCHANGED <<scrVars, dlVars, diskVars, log>>

\* lines 565-567 and 581-585
ImageStep ==
    /\ pc = "image"
    /\ IF result.image_url # <<>>
       THEN /\ dlpc' = "called"
            /\ dl_url' = result.image_url
            /\ dl_cookies' = cookies
            /\ pc' = "downloading"
            /\ UNCHANGED warnings
       ELSE /\ warnings' = AppendWarning(warnings, Err("no_image", <<>>))
            /\ pc' = "respond"
            /\ UNCHANGED <<dlpc, dl_url, dl_cookies>>
    /\ UNCHANGED <<imgResp, tmp, total_bytes, remaining, dlReturn>>
    /\ UNCHANGED <<cfg, data, req, url, platform, cookies, botUA, pageResp, face_filename, response>>
    /\ UNCHANGED <<scrVars, diskVars, log>>

\* lines 568-580
ImageWarning(error, plat) ==
    IF Mentions403(error) /\ plat \in {"linkedin", "instagram", "facebook"}
    THEN Err("download_blocked", <<>>)
    ELSE error

\* lines 567-580: _download_image returned, or raised
ImageReturned ==
    /\ pc = "downloading"
    /\ dlpc \in {"returned", "raised"}
    /\ IF dlpc = "raised"
       THEN /\ response' = Unhandled(dlReturn.raised)
            /\ pc' = "done"
            /\ UNCHANGED <<face_filename, warnings>>
       ELSE /\ face_filename' = dlReturn.filename
            /\ warnings' = IF dlReturn.error # NoError
                           THEN AppendWarning(warnings, ImageWarning(dlReturn.error, platform))
                           ELSE warnings
            /\ pc' = "respond"
            /\ UNCHANGED response
    /\ UNCHANGED <<cfg, data, req, url, platform, cookies, botUA, pageResp>>
    /\ UNCHANGED <<scrVars, dlVars, diskVars, log>>

\* lines 587-599
SuccessBody ==
    [name |-> result.name,
     face_filename |-> face_filename,
     context1 |-> IF result.description # <<>> THEN Truncate(result.description) ELSE <<>>,
     raw_description |-> result.raw_description,
     source |-> platform,
     source_url |-> url,
     warnings |-> warnings]

Respond ==
    /\ pc = "respond"
    /\ response' = [status |-> 200, body |-> SuccessBody]
    /\ pc' = "done"
    /\ UNCHANGED <<cfg, data, req, url, platform, cookies, botUA, pageResp, warnings, face_filename>>
    /\ UNCHANGED <<scrVars, dlVars, diskVars, log>>

scrape_url(Urls, Responses, Pages) ==
    \/ StartRequest(Urls)
    \/ FetchPage(Responses)
    \/ CheckResponse
    \/ ParsePage(Pages)
    \/ ScraperDone
    \/ WarnName
    \/ WarnDescription
    \/ ImageStep
    \/ ImageReturned
    \/ Respond

(***************************************************************************)
(* The requests, pages and answers the handler is run on.                  *)
(***************************************************************************)
MaxDescLen == 301
Rep(c, n) == [i \in 1..n |-> c]

RequestUrls == {<<>>, <<" ", " ">>, <<"l", "i", "n", "k", "e", "d", "i", "n", ".", "c", "o", "m", "/", "i", "n", "/", "a", "l">>, <<"h", "t", "t", "p", "s", ":", "/", "/", "t", "w", "i", "t", "t", "e", "r", ".", "c", "o", "m", "/", "a", "l", "/", "w", "i", "t", "h">>,
                <<"h", "t", "t", "p", "s", ":", "/", "/", "x", ".", "c", "o", "m", "/", "a", "l">>, <<"h", "t", "t", "p", "s", ":", "/", "/", "I", "n", "s", "t", "a", "g", "r", "a", "m", ".", "c", "o", "m", "/", "a", "l">>,
                <<"h", "t", "t", "p", ":", "/", "/", "f", "b", ".", "c", "o", "m", "/", "a", "l">>, <<"h", "t", "t", "p", "s", ":", "/", "/", "a", "l", ".", "i", "o", "/", "m", "e">>}

PageResponses == [status : {200, 404, 500, 999}, authwall : BOOLEAN]

SampleImageResponses ==
    {[status |-> 200, ctype |-> <<"i", "m", "a", "g", "e", "/", "j", "p", "e", "g">>, clen |-> [present |-> FALSE, value |-> <<>>]],
     [status |-> 200, ctype |-> <<"i", "m", "a", "g", "e", "/", "j", "p", "e", "g">>, clen |-> [present |-> TRUE, value |-> <<"9", "9", "9">>]],
     [status |-> 200, ctype |-> <<"i", "m", "a", "g", "e", "/", "j", "p", "e", "g">>, clen |-> [present |-> TRUE, value |-> <<"a", "b", "c">>]],
     [status |-> 200, ctype |-> <<"i", "m", "a", "g", "e", "/", "s", "v", "g", "+", "x", "m", "l">>, clen |-> [present |-> FALSE, value |-> <<>>]],
     [status |-> 200, ctype |-> <<"t", "e", "x", "t", "/", "h", "t", "m", "l">>, clen |-> [present |-> FALSE, value |-> <<>>]],
     [status |-> 403, ctype |-> <<"t", "e", "x", "t", "/", "h", "t", "m", "l">>, clen |-> [present |-> FALSE, value |-> <<>>]],
     [status |-> 500, ctype |-> <<>>, clen |-> [present |-> FALSE, value |-> <<>>]]}

SampleBodySizes == {MinBodyBytes - 1, MaxBodyLen}

\* outcomes of the API call
Message(text) == [error |-> "none", status |-> 200, shape |-> "message", text |-> text]
ProfileJson == <<"{", "\"", "n", "a", "m", "e", "\"", ":", " ", "\"", "L", "e", "e", "\"", ",", " ", "\"", "c", "o", "n", "t", "e", "x", "t", "\"", ":", " ", "\"", "c", "t", "x", "\"", ",", " ", "\"", "i", "m", "a", "g", "e", "_", "u", "r", "l", "\"", ":", " ", "\"", "h", "t", "t", "p", "s", ":", "/", "/", "c", "/", "l", ".", "j", "p", "g", "\"", "}">>
NamelessJson == <<"{", "\"", "n", "a", "m", "e", "\"", ":", " ", "\"", "\"", ",", " ", "\"", "c", "o", "n", "t", "e", "x", "t", "\"", ":", " ", "\"", "c", "t", "x", "\"", ",", " ", "\"", "i", "m", "a", "g", "e", "_", "u", "r", "l", "\"", ":", " ", "n", "u", "l", "l", "}">>
FailedCalls ==
    {[error |-> e, status |-> 0, shape |-> "none", text |-> <<>>] : e \in FetchErrors}
    \cup {[error |-> "none", status |-> s, shape |-> "error", text |-> <<>>] : s \in {401, 500, 529}}
    \cup {[error |-> "none", status |-> 200, shape |-> h, text |-> <<>>] :
            h \in {"not_json", "no_content", "no_text"}}
MessageTexts ==
    {<<>>, <<" ", " ">>, <<"I", " ", "c", "a", "n", "n", "o", "t", " ", "h", "e", "l", "p">>, ProfileJson, NamelessJson,
     <<" ">> \o ProfileJson \o <<"\n">>,
     <<"backquote", "backquote", "backquote", "j", "s", "o", "n", "\n">> \o ProfileJson \o <<"\n", "backquote", "backquote", "backquote">>,
     <<"backquote", "backquote", "backquote">> \o ProfileJson \o <<"backquote", "backquote", "backquote">>,
     <<"backquote", "backquote", "backquote", "j", "s", "o", "n", "\n">> \o ProfileJson,
     <<"backquote", "backquote", "backquote", "j", "s", "o", "n", "\n", "[", "\"", "L", "e", "e", "\"", "]", "\n", "backquote", "backquote", "backquote">>,
     <<"{", "\"", "n", "a", "m", "e", "\"", ":", " ", "\"", "L", "e", "e", "\"">>, <<"{", "\"", "n", "a", "m", "e", "\"", ":", " ", "\"", "L", "e", "e", "\"", ",", "}">>,
     <<"{", "}">>, <<"[", "]">>, <<"[", "1", "]">>, <<"[", "\"", "L", "e", "e", "\"", ",", " ", "\"", "c", "t", "x", "\"", "]">>,
     <<"0">>, <<"5">>, <<"\"", "L", "e", "e", "\"">>, <<"\"", "\"">>, <<"n", "u", "l", "l">>, <<"t", "r", "u", "e">>, <<"f", "a", "l", "s", "e">>}
LlmOutcomes == FailedCalls \cup {Message(text) : text \in MessageTexts}

SampleLlmOutcomes ==
    {[error |-> "ConnectTimeout", status |-> 0, shape |-> "none", text |-> <<>>],
     Message(ProfileJson), Message(NamelessJson), Message(<<"[", "1", "]">>)}

LinkedInPages ==
    {[EmptyPage EXCEPT !.og.title = t, !.og.description = d, !.og.image = i,
                       !.contact = c, !.p_texts = <<<<"a", "l", " ", "b">>, <<"E", "n", "g">>, <<"A", "c", "m", "e">>>>,
                       !.roots = r,
                       !.suffixes = <<<<<<"8", "0", "0", "_", "8", "0", "0">>, <<"/", "b", "\\", "u", "0", "0", "2", "6", "c">>>>,
                                      <<<<"2", "0", "0", "_", "2", "0", "0">>, <<"/", "a">>>>>>] :
        t \in {<<>>, <<"A", "l", " ", "B", " ", "|", " ", "L", "i", "n", "k", "e", "d", "I", "n">>},
        d \in {<<>>, <<"E", "x", "p", "e", "r", "i", "e", "n", "c", "e", ":", " ", "A", "c", " ", "middot", " ", "5", " ", "c", "o", "n", "n", "e", "c", "t", "i", "o", "n", "s">>, <<"L", "o", "c", "a", "t", "i", "o", "n", ":", " ", "N", "Y">>},
        i \in {<<>>, <<"h", "t", "t", "p", "s", ":", "/", "/", "c", "/", "a", ".", "j", "p", "g">>, <<"h", "t", "t", "p", "s", ":", "/", "/", "c", "/", "g", "h", "o", "s", "t", ".", "p", "n", "g">>},
        c \in BOOLEAN,
        r \in {<<>>, <<<<"h", "t", "t", "p", "s", ":", "/", "/", "m", "/", "d", "e", "f", "a", "u", "l", "t", "-">>>>}}

TwitterPages ==
    {[EmptyPage EXCEPT !.og.title = t, !.og.description = d, !.og.image = i,
                       !.tw.image_src = <<"h", "t", "t", "p", "s", ":", "/", "/", "c", "/", "t", ".", "j", "p", "g">>] :
        t \in {<<>>, <<"A", "l", " ", "B", " ", "(", "@", "a", "l", ")", " ", "/", " ", "X">>, <<"a", "l">>},
        d \in {<<>>, <<"b", "i", "o">>, Rep("a", ContextLimit), Rep("a", MaxDescLen)},
        i \in {<<>>, <<"h", "t", "t", "p", "s", ":", "/", "/", "c", "/", "a", "_", "2", "0", "0", "x", "2", "0", "0", ".", "j", "p", "g">>, <<"h", "t", "t", "p", "s", ":", "/", "/", "c", "/", "d", "e", "f", "a", "u", "l", "t", ".", "p", "n", "g">>}}

InstagramPages ==
    {[EmptyPage EXCEPT !.og.title = t, !.meta_description = d, !.og.image = i] :
        t \in {<<>>, <<"A", "l", " ", "(", "@", "a", "l", ")">>},
        d \in {<<>>, <<"A", "l", " ", "o", "n", " ", "I", "n", "s", "t", "a", "g", "r", "a", "m", ":", " ", "\"", "b", "i", "o", "\"">>, <<"p", "l", "a", "i", "n">>},
        i \in {<<>>, <<"h", "t", "t", "p", "s", ":", "/", "/", "c", "/", "s", "1", "0", "0", "x", "1", "0", "0", "/", "a", ".", "j", "p", "g">>, <<"h", "t", "t", "p", "s", ":", "/", "/", "c", "/", "4", "0", "3", "/", "n", "o", "_", "p", "h", "o", "t", "o", ".", "j", "p", "g">>}}

FacebookPages ==
    {[EmptyPage EXCEPT !.og.title = t, !.og.description = d, !.og.image = i] :
        t \in {<<>>, <<"A", "L", " ", "B">>},
        d \in {<<>>, <<"A", "l", " ", "i", "s", " ", "o", "n", " ", "F", "a", "c", "e", "b", "o", "o", "k", ".">>, <<"b", "i", "o">>},
        i \in {<<>>, <<"h", "t", "t", "p", "s", ":", "/", "/", "c", "/", "a", ".", "j", "p", "g">>, <<"h", "t", "t", "p", "s", ":", "/", "/", "c", "/", "G", "h", "o", "s", "t", ".", "p", "n", "g">>}}

\* the <img> tags of a generic page: an inline data URI and a relative avatar
PageImgs ==
    <<[src |-> <<"d", "a", "t", "a", ":", "x">>, alt |-> <<"p", "h", "o", "t", "o">>],
      [src |-> <<"i", "/", "a", "v", "a", "t", "a", "r", ".", "p", "n", "g">>, alt |-> <<>>]>>

GenericPages ==
    {[EmptyPage EXCEPT !.og.title = t, !.og.description = d, !.og.image = i,
                       !.title_tag = <<"A", "l", " ", "-", " ", "s", "i", "t", "e">>,
                       !.headings = IF b THEN <<<<"H", "i">>, <<"A", "l", "a", "n">>>> ELSE <<>>,
                       !.images = IF b THEN PageImgs ELSE <<>>] :
        t \in {<<>>, <<"A", "l", " ", "B">>, <<"|", " ", "H", "o", "m", "e">>},
        d \in {<<>>, <<"b", "i", "o">>},
        i \in {<<>>, <<"h", "t", "t", "p", "s", ":", "/", "/", "c", "/", "a", ".", "j", "p", "g">>},
        b \in BOOLEAN}

HandlerPages ==
    [plat \in {"linkedin", "twitter", "instagram", "facebook", "other"} |->
        CASE plat = "linkedin" -> LinkedInPages
          [] plat = "twitter" -> TwitterPages
          [] plat = "instagram" -> InstagramPages
          [] plat = "facebook" -> FacebookPages
          [] OTHER -> GenericPages]

(***************************************************************************)
(* Initial states.                                                         *)
(***************************************************************************)

IdleHandler ==
    /\ pc = "idle"
    /\ data = <<>>
    /\ req = 0
    /\ url = <<>>
    /\ platform = "none"
    /\ cookies = {}
    /\ botUA = FALSE
    /\ pageResp = NoResp
    /\ spc = "idle"
    /\ soup = EmptyPage
    /\ gen = NoGen
    /\ result = NoResult
    /\ warnings = <<>>
    /\ face_filename = 0
    /\ response = NoResponse

IdleDownload ==
    /\ imgResp = NoImgResp
    /\ tmp = NoTmp
    /\ total_bytes = 0
    /\ remaining = 0
    /\ dlReturn = NoReturn

EmptyDisk ==
    /\ tmpFiles = {}
    /\ tmpCount = 0
    /\ media = {}

\* _download_image called on its own, with any URL and either cookies argument
InitDownload ==
    /\ cfg \in Configs
    /\ IdleHandler
    /\ IdleDownload
    /\ EmptyDisk
    /\ log = <<>>
    /\ dlpc = "called"
    /\ dl_url \in ImageUrls
    /\ dl_cookies \in {{}, {"li_at"}}

NextDownload == _download_image(ImageResponses, BodySizes)

SpecDownload == InitDownload /\ [][NextDownload]_vars

\* _scrape_generic called on its own, on any generic page
InitGeneric ==
    /\ cfg \in Configs
    /\ pc = "scraping"
    /\ data = <<>>
    /\ req = 0
    /\ url = <<"h", "t", "t", "p", "s", ":", "/", "/", "a", "l", ".", "i", "o", "/", "m", "e">>
    /\ platform = "other"
    /\ cookies = {}
    /\ botUA = FALSE
    /\ pageResp = [NoResp EXCEPT !.status = 200]
    /\ spc = "called"
    /\ soup \in GenericPages
    /\ gen = NoGen
    /\ result = NoResult
    /\ warnings = <<>>
    /\ face_filename = 0
    /\ response = NoResponse
    /\ IdleDownload
    /\ EmptyDisk
    /\ log = <<>>
    /\ dlpc = "idle"
    /\ dl_url = <<>>
    /\ dl_cookies = {}

NextGeneric == _scrape_generic(LlmOutcomes)

SpecGeneric == InitGeneric /\ [][NextGeneric]_vars

\* og:description texts in LinkedIn's format: up to two segments, then the
\* connections count or the Connect link
DescSegments ==
    {<<>>, <<" ">>, <<"E", "n", "g", " ", "a", "t", " ", "A", "c", "m", "e">>, <<"E", "x", "p", "e", "r", "i", "e", "n", "c", "e", ":", " ", "A", "c", "m", "e">>, <<"L", "o", "c", "a", "t", "i", "o", "n", ":", " ", "N", "Y">>, <<"E", "d", "u", "c", "a", "t", "i", "o", "n", ":">>}
DescTails == {<<>>, <<" ", "middot", " ", "5", "0", "0", "+", " ", "c", "o", "n", "n", "e", "c", "t", "i", "o", "n", "s">>, <<" ", "middot", " ", "C", "o", "n", "n", "e", "c", "t">>, <<"middot", " ", "1", " ", "c", "o", "n", "n", "e", "c", "t", "i", "o", "n", " ">>}
DescInputs ==
    {first \o second \o tail :
        first \in DescSegments,
        second \in {<<>>, <<" ", "middot", " ", "M", "I", "T">>, <<" ", "middot", " ", "C", "o", "n", "n", "e", "c", "t", "i", "o", "n", "s", ":", " ", "5">>, <<"middot", "L", "o", "c", "a", "t", "i", "o", "n", ":", " ", "S", "F">>},
        tail \in DescTails}

\* og:title texts: a name in some letter case, then a separator and a suffix
NameInputs ==
    {name \o suffix :
        name \in {<<"A", "l", " ", "B">>, <<"J", "O", "H", "N", " ", "S", "M", "I", "T", "H">>, <<"a", "l", " ", "b">>, <<"M", "a", "r", "y", "-", "J", "a", "n", "e", " ", "B">>},
        suffix \in {<<>>, <<" ", "|", " ", "C", "o", "m", "p", "a", "n", "y">>, <<" ", "-", " ", "S", "i", "t", "e">>, <<"ndash", "x">>, <<" ", "mdash", " ", "y", " ", "z">>,
                    <<" ", "o", "n", " ", "L", "i", "n", "k", "e", "d", "I", "n">>, <<",", " ", "P", "h", "D">>, <<" ", "|", " ", "C", "o", "\n", "L", "t", "d">>}}
    \cup {<<" ", " ">>, <<"|", " ", "H", "o", "m", "e">>, <<"4", "2">>}
    \cup {<<"J", "a", "s", "o", "n", " ", "X", "a", "v", "i", "e", "r">>, <<"R", "o", "n", " ", "X", "u">>, <<"R", "O", "N", " ", "X", "U">>, <<"D", "o", "n", " ", "F", "a", "c", "e", "b", "o", "o", "k", "s", "o", "n">>,
          <<" ", "l", "e", "e", " ", "s", "i", "m", "o", "n", " ">>, <<"A", "l", " ", "B", " ", "o", "n", " ", "X">>, <<"A", "l", " ", "B", " ", "O", "n", " ", "T", "w", "i", "t", "t", "e", "r", " ", "n", "o", "w">>}

\* authenticated LinkedIn markup: the CDN roots and the size suffixes found in
\* it, up to two suffixes in either order or one of every size
FoundSuffixes ==
    {<<<<"8", "0", "0", "_", "8", "0", "0">>, <<"/", "b", "\\", "u", "0", "0", "2", "6", "c">>>>, <<<<"4", "0", "0", "_", "4", "0", "0">>, <<"/", "a">>>>,
     <<<<"2", "0", "0", "_", "2", "0", "0">>, <<"/", "d">>>>, <<<<"1", "0", "0", "_", "1", "0", "0">>, <<"/", "e">>>>}
SuffixLists ==
    {<<>>}
    \cup {<<f>> : f \in FoundSuffixes}
    \cup {<<f, g>> : f \in FoundSuffixes, g \in FoundSuffixes}
    \cup {<<<<<<"1", "0", "0", "_", "1", "0", "0">>, <<"/", "e">>>>, <<<<"2", "0", "0", "_", "2", "0", "0">>, <<"/", "d">>>>,
             <<<<"8", "0", "0", "_", "8", "0", "0">>, <<"/", "b", "\\", "u", "0", "0", "2", "6", "c">>>>, <<<<"4", "0", "0", "_", "4", "0", "0">>, <<"/", "a">>>>>>}
PhotoPages ==
    {[EmptyPage EXCEPT !.roots = r, !.suffixes = f] :
        r \in {<<>>, <<<<"h", "t", "t", "p", "s", ":", "/", "/", "m", "/", "p", "h", "o", "t", "o", "-">>>>, <<<<"h", "t", "t", "p", "s", ":", "/", "/", "m", "/", "p", "h", "o", "t", "o", "-">>, <<"h", "t", "t", "p", "s", ":", "/", "/", "m", "/", "o", "t", "h", "e", "r", "-">>>>},
        f \in SuffixLists}

CleanerPages ==
    {[EmptyPage EXCEPT !.og.description = d] : d \in DescInputs}
    \cup {[EmptyPage EXCEPT !.og.title = n] : n \in NameInputs}
    \cup PhotoPages

\* URLs a request may submit: hosts in either case, with tails that carry
\* further domain fragments
StartHosts ==
    {<<"l", "i", "n", "k", "e", "d", "i", "n", ".", "c", "o", "m">>, <<"w", "w", "w", ".", "L", "i", "n", "k", "e", "d", "I", "n", ".", "C", "O", "M">>, <<"h", "t", "t", "p", "s", ":", "/", "/", "t", "w", "i", "t", "t", "e", "r", ".", "c", "o", "m">>, <<"x", ".", "c", "o", "m">>,
     <<"h", "t", "t", "p", ":", "/", "/", "I", "n", "s", "t", "a", "g", "r", "a", "m", ".", "c", "o", "m">>, <<"m", ".", "f", "a", "c", "e", "b", "o", "o", "k", ".", "c", "o", "m">>, <<"f", "b", ".", "c", "o", "m">>, <<"h", "t", "t", "p", "s", ":", "/", "/", "f", "o", "x", ".", "c", "o", "m">>,
     <<"a", "l", ".", "i", "o">>, <<"l", "i", "n", "k", "e", "d", "i", "n", ".", "o", "r", "g">>}
StartTails == {<<>>, <<"/", "a", "l">>, <<"/", "?", "n", "e", "x", "t", "=", "l", "i", "n", "k", "e", "d", "i", "n", ".", "c", "o", "m">>, <<"/", "t", "w", "i", "t", "t", "e", "r", ".", "c", "o", "m", "/", "a", "l">>}
StartUrls ==
    {host \o tail : host \in StartHosts, tail \in StartTails}
    \cup {<<>>, <<" ", "x", ".", "c", "o", "m", "/", "a", "l", " ">>, <<"h", "t", "t", "p", "s", ":", "/", "/", "X", ".", "C", "O", "M", "/", "A", "l", "_", "1", "?", "s", "=", "2", "0">>, <<"F", "B", ".", "c", "o", "m">>}

\* URLs of profiles and of pages that mention a profile, and the pages behind
\* them: an empty page and a page with complete OpenGraph tags
CanonicalUrls ==
    {<<"h", "t", "t", "p", "s", ":", "/", "/", "t", "w", "i", "t", "t", "e", "r", ".", "c", "o", "m", "/", "a", "l">>, <<"t", "w", "i", "t", "t", "e", "r", ".", "c", "o", "m", "/", "a", "l", "/", "w", "i", "t", "h", "_", "r", "e", "p", "l", "i", "e", "s">>,
     <<"h", "t", "t", "p", "s", ":", "/", "/", "m", "o", "b", "i", "l", "e", ".", "t", "w", "i", "t", "t", "e", "r", ".", "c", "o", "m", "/", "a", "l", "_", "b", "?", "l", "a", "n", "g", "=", "e", "n">>, <<"h", "t", "t", "p", "s", ":", "/", "/", "x", ".", "c", "o", "m", "/", "a", "l">>,
     <<" ", "h", "t", "t", "p", ":", "/", "/", "w", "w", "w", ".", "x", ".", "c", "o", "m", "/", "A", "l", "_", "1", "/", " ">>, <<"h", "t", "t", "p", "s", ":", "/", "/", "T", "w", "i", "t", "t", "e", "r", ".", "c", "o", "m", "/", "a", "l">>, <<"h", "t", "t", "p", "s", ":", "/", "/", "x", ".", "c", "o", "m", "/">>,
     <<"h", "t", "t", "p", "s", ":", "/", "/", "f", "o", "x", ".", "c", "o", "m", "/", "a", "l">>, <<"h", "t", "t", "p", "s", ":", "/", "/", "a", "l", ".", "i", "o", "/", "?", "v", "i", "a", "=", "t", "w", "i", "t", "t", "e", "r", ".", "c", "o", "m", "/", "z", "e", "d">>,
     <<"l", "i", "n", "k", "e", "d", "i", "n", ".", "c", "o", "m", "/", "i", "n", "/", "a", "l">>, <<"h", "t", "t", "p", "s", ":", "/", "/", "i", "n", "s", "t", "a", "g", "r", "a", "m", ".", "c", "o", "m", "/", "a", "l">>, <<"h", "t", "t", "p", ":", "/", "/", "f", "b", ".", "c", "o", "m", "/", "x", ".", "c", "o", "m", "/", "a", "l">>,
     <<"h", "t", "t", "p", "s", ":", "/", "/", "a", "l", ".", "i", "o", "/", "m", "e">>}
ProfilePages ==
    [plat \in {"linkedin", "twitter", "instagram", "facebook", "other"} |->
        {EmptyPage,
         [EmptyPage EXCEPT !.og.title = <<"A", "l", " ", "B">>, !.og.description = <<"b", "i", "o">>,
                           !.og.image = <<"h", "t", "t", "p", "s", ":", "/", "/", "c", "/", "a", ".", "j", "p", "g">>]}]

\* one of the four platform scrapers called on its own
InitScrapers ==
    /\ cfg \in Configs
    /\ pc = "scraping"
    /\ data = <<>>
    /\ req = 0
    /\ url = <<"h", "t", "t", "p", "s", ":", "/", "/", "a", "l", ".", "i", "o", "/", "m", "e">>
    /\ platform \in {"linkedin", "twitter", "instagram", "facebook"}
    /\ cookies = {}
    /\ botUA = FALSE
    /\ pageResp = [NoResp EXCEPT !.status = 200]
    /\ spc = "called"
    /\ soup \in CleanerPages
    /\ gen = NoGen
    /\ result = NoResult
    /\ warnings = <<>>
    /\ face_filename = 0
    /\ response = NoResponse
    /\ IdleDownload
    /\ EmptyDisk
    /\ log = <<>>
    /\ dlpc = "idle"
    /\ dl_url = <<>>
    /\ dl_cookies = {}

NextScrapers == ScrapePlatform

SpecScrapers == InitScrapers /\ [][NextScrapers]_vars

\* the server after start-up: no request yet
Init ==
    /\ cfg \in Configs
    /\ IdleHandler
    /\ IdleDownload
    /\ EmptyDisk
    /\ log = <<>>
    /\ dlpc = "idle"
    /\ dl_url = <<>>
    /\ dl_cookies = {}

Next ==
    \/ scrape_url(RequestUrls, PageResponses, HandlerPages)
    \/ Scraper(SampleLlmOutcomes)
    \/ _download_image(SampleImageResponses, SampleBodySizes)

Spec == Init /\ [][Next]_vars

\* the first lines of scrape_url, up to the choice of URL, platform, user
\* agent and cookies, on any submitted URL
NextStart == StartRequest(StartUrls)

SpecStart == Init /\ [][NextStart]_vars

\* the handler on URLs that name a profile in many ways
NextCanonical ==
    \/ scrape_url(CanonicalUrls, PageResponses, ProfilePages)
    \/ Scraper(SampleLlmOutcomes)
    \/ _download_image(SampleImageResponses, SampleBodySizes)

SpecCanonical == Init /\ [][NextCanonical]_vars

(***************************************************************************)
(* Properties of _download_image, checked under SpecDownload.              *)
(***************************************************************************)
DlExited == dlpc \in {"returned", "raised"}
DlRejected ==
    /\ dlpc = "returned"
    /\ dlReturn.filename = 0
    /\ dlReturn.error # NoError

\* C1: for every URL, cookies argument and outcome of the fetch, the header
\* checks, the streaming and the optimizer, _download_image returns exactly one
\* of a stored filename and a failure reason, and no exception escapes from it.
C1_ExactlyOneOfFilenameOrReason ==
    /\ dlpc # "raised"
    /\ dlpc = "returned" => ((dlReturn.filename # 0) # (dlReturn.error # NoError))

\* C2: a temporary file _download_image created no longer exists once
\* _download_image has exited, whichever way it exited.
C2_TempFileRemovedOnExit ==
    (DlExited /\ tmp.id # 0) => tmp.id \notin tmpFiles

\* C8: a response whose content-type is image/svg+xml is always rejected: no
\* temporary file is written, the optimizer is never reached, nothing is stored
\* and no filename is returned, whatever its status and content-length.
C8_SvgAlwaysRejected ==
    imgResp.ctype = <<"i", "m", "a", "g", "e", "/", "s", "v", "g", "+", "x", "m", "l">> =>
        /\ dlpc \notin {"tmp", "stream", "optimize", "raised"}
        /\ tmp.id = 0
        /\ media = {}
        /\ dlpc = "returned" => DlRejected

C8_Witness ==
    /\ imgResp.ctype = <<"i", "m", "a", "g", "e", "/", "s", "v", "g", "+", "x", "m", "l">>
    /\ imgResp.status = 200
    /\ imgResp.clen.value = <<"1", "0", "0", "0">>
    /\ dlpc = "returned"
    /\ dlReturn.error.kind = "svg"

HeaderBelowMin ==
    /\ imgResp.clen.present
    /\ ParseInt(imgResp.clen.value).ok
    /\ ParseInt(imgResp.clen.value).val < 1000
MeasuredBelowMin ==
    /\ tmp.id # 0
    /\ total_bytes < 1000

\* C9: when the content-length header declares fewer than 1000 bytes, or when
\* fewer than 1000 bytes were counted while streaming (the header absent or
\* declaring 1000 or more), _download_image exits with a rejection and nothing
\* is stored, for every content-type.
C9_SmallImageRejected ==
    (DlExited /\ (HeaderBelowMin \/ MeasuredBelowMin)) =>
        /\ DlRejected
        /\ media = {}

C9_Witness ==
    /\ DlExited
    /\ imgResp.clen.value = <<"1", "0", "0", "0">>
    /\ tmp.id # 0
    /\ remaining = 0
    /\ total_bytes = 999
    /\ dlReturn.error.kind = "too_small_download"

(***************************************************************************)
(* Properties of scrape_url and the scrapers, checked under Spec.          *)
(***************************************************************************)
Done == pc = "done"
\* the page fetch raised: a fetch was issued and no response came back
PageFetchRaised == Len(log) > 0 /\ pageResp = NoResp
ErrorKinds == {"url_required", "fetch_failed", "linkedin_block", "not_found", "http_error"}
ImageWarningKinds == {"no_image", "download_blocked", "placeholder", "download_failed",
                      "not_image", "svg", "too_small_header", "too_small_download"}

\* C3: a request is answered 200 or, for an input error, a page-fetch error or
\* a platform block, 400; and once the platform scraper has returned, whatever
\* the scraper did not find and however the image pipeline failed, the answer
\* is 200, with face_filename null and an image warning when no image was stored.
C3_FailuresEndInWarnings ==
    Done =>
        /\ spc \in {"idle", "returned"} => response.status \in {200, 400}
        /\ response.status = 400 => response.body.error.kind \in ErrorKinds
        /\ spc = "returned" =>
            /\ response.status = 200
            /\ dlReturn.filename = 0 =>
                /\ response.body.face_filename = 0
                /\ \E i \in 1..Len(response.body.warnings) :
                     response.body.warnings[i].kind \in ImageWarningKinds

\* C4: when the page fetch raises a network error the answer is status 400 with
\* a body that holds the error field and nothing else, on every platform.
C4_FetchErrorGives400 ==
    (Done /\ PageFetchRaised) =>
        /\ response.status = 400
        /\ DOMAIN response.body = {"error"}
        /\ response.body.error.kind = "fetch_failed"

C4_Witness ==
    /\ Done
    /\ PageFetchRaised
    /\ platform = "twitter"
    /\ response.status = 400
    /\ response.body.error = [kind |-> "fetch_failed", hint |-> "ConnectTimeout"]

\* C5 as stated: the image_url a platform scraper returns is empty or accepted
\* by _is_valid_profile_image.
C5_ScraperImagePassesFilter ==
    spc = "returned" =>
        result.image_url = <<>> \/ _is_valid_profile_image(result.image_url)

\* C5 as amended: only _scrape_linkedin filters the OpenGraph/Twitter-card image
\* (on a LinkedIn page that has an og:description the image_url is empty or
\* accepted); an image_url of any scraper that the filter rejects reaches
\* _download_image, which rejects it as a placeholder before fetching, so no
\* image fetch is ever issued for a URL the filter rejects.
C5_RejectedUrlNeverFetched ==
    /\ \A i \in 1..Len(log) :
         log[i].call = "image" => _is_valid_profile_image(log[i].url)
    /\ (spc = "returned" /\ platform = "linkedin" /\ soup.og.description # <<>>) =>
         (result.image_url = <<>> \/ _is_valid_profile_image(result.image_url))
    /\ (dlpc = "returned" /\ ~_is_valid_profile_image(dl_url)) =>
         /\ dlReturn.filename = 0
         /\ dlReturn.error.kind \in {"no_url", "placeholder"}

C5_Witness ==
    /\ pc = "downloading"
    /\ platform = "twitter"
    /\ dl_url = <<"h", "t", "t", "p", "s", ":", "/", "/", "c", "/", "d", "e", "f", "a", "u", "l", "t", ".", "p", "n", "g">>
    /\ dlpc = "returned"
    /\ dlReturn.error.kind = "placeholder"
    /\ \A i \in 1..Len(log) : log[i].call # "image"

\* C6: in every success response context1 has at most 300 characters and is a
\* prefix of the description the scraper produced, the whole of it when that
\* has at most 300 characters.
C6_ContextIsPrefixOfDescription ==
    (Done /\ response.status = 200) =>
        LET context1 == response.body.context1 IN
        /\ Len(context1) <= 300
        /\ Len(context1) <= Len(result.description)
        /\ context1 = SubSeq(result.description, 1, Len(context1))
        /\ Len(result.description) <= 300 => context1 = result.description

C6_Witness ==
    /\ Done
    /\ response.status = 200
    /\ Len(result.description) > 300
    /\ Len(response.body.context1) = 300

WarningRank(w) ==
    CASE w.kind = "no_name" -> 1
      [] w.kind = "no_description" -> 2
      [] OTHER -> 3
WarningsOrdered(ws) ==
    \A i, j \in 1..Len(ws) : i < j => WarningRank(ws[i]) < WarningRank(ws[j])
IsPrefix(s, u) == Len(s) <= Len(u) /\ s = SubSeq(u, 1, Len(s))

\* C7: within one request the warnings list only grows at its end, and it is
\* ordered name-missing, description-missing, image warning, each at most once.
C7_WarningsAppendOnlyAndOrdered ==
    [][/\ req' = req => IsPrefix(warnings, warnings')
       /\ WarningsOrdered(warnings')]_vars

C7_Witness ==
    /\ Done
    /\ response.status = 200
    /\ Len(response.body.warnings) = 3
    /\ response.body.warnings[1].kind = "no_name"
    /\ response.body.warnings[3].kind = "download_failed"

OGAllPresent ==
    /\ soup.og.title # <<>>
    /\ soup.og.description # <<>>
    /\ soup.og.image # <<>>
ExtractorInvoked == \E i \in 1..Len(log) : log[i].call = "extract"
ReturnsOGFields ==
    /\ spc = "returned"
    /\ ~ExtractorInvoked
    /\ result.name = _clean_name(soup.og.title, "other")
    /\ result.description = soup.og.description
    /\ result.image_url = soup.og.image

\* C10 as stated: on a generic page whose og:title, og:description and og:image
\* are all non-empty, _scrape_generic never invokes the LLM fallback extractor
\* and returns the cleaned title, the description and the image.
C10_CompleteOGBypassesLLM ==
    (platform = "other" /\ spc \notin {"idle", "called"} /\ OGAllPresent) => ReturnsOGFields

\* C10 as amended: the same, for a page whose og:title does not clean to the
\* empty string; when it does (a title that starts with a separator), the name is
\* missing after the OpenGraph stage and the LLM fallback extractor is invoked.
C10_CompleteOGWithNameBypassesLLM ==
    (platform = "other" /\ spc \notin {"idle", "called"} /\ OGAllPresent) =>
        IF _clean_name(soup.og.title, "other") # <<>>
        THEN ReturnsOGFields
        ELSE ExtractorInvoked \/ spc = "llm"

C10_Witness ==
    /\ platform = "other"
    /\ spc = "returned"
    /\ soup.og.title = <<"A", "l", " ", "B">>
    /\ OGAllPresent
    /\ ~ExtractorInvoked
    /\ result.name = <<"A", "l", " ", "B">>
    /\ result.description = <<"b", "i", "o">>

Calls(kind) == {i \in 1..Len(log) : log[i].call = kind}

\* C12: within one request at most one page fetch, at most one image fetch and
\* at most one LLM call are issued, whatever their outcome: a call that timed
\* out or failed to connect is not issued again.
C12_NoCallIssuedTwice ==
    \A kind \in {"page", "image", "llm"} : Cardinality(Calls(kind)) <= 1

C12_Witness ==
    /\ Done
    /\ response.status = 200
    /\ Cardinality(Calls("page")) = 1
    /\ Cardinality(Calls("llm")) = 1
    /\ Cardinality(Calls("image")) = 1
    /\ gen.llm_result = LlmNone
    /\ imgResp = NoImgResp
    /\ dlReturn.error.kind = "download_failed"

\* the page fetch of the request answered, and the request is answered
PageAnswered == Done /\ pageResp # NoResp
LinkedInBlockError ==
    /\ response.status = 400
    /\ response.body.error.kind = "linkedin_block"
BotBlockOfLinkedIn ==
    platform = "linkedin" /\ (pageResp.status = 999 \/ pageResp.authwall)

\* C16: LinkedIn's bot-block response (status 999, or the authwall marker in
\* the page of a LinkedIn URL) is answered 400 with the set-the-cookie hint
\* exactly when no cookie is configured and the cookie-expired hint exactly when
\* one is, whatever the 404 and HTTP-error checks would say; and the LinkedIn
\* error is produced only for requests whose platform is linkedin.
C16_LinkedInBlockOnlyForLinkedIn ==
    PageAnswered =>
        /\ BotBlockOfLinkedIn =>
             /\ LinkedInBlockError
             /\ response.body.error.hint = "set_cookie" <=> ~cfg.cookie
             /\ response.body.error.hint = "cookie_expired" <=> cfg.cookie
        /\ LinkedInBlockError => platform = "linkedin"

\* the request may carry the session cookie
CookieDue == platform = "linkedin" /\ cfg.cookie

\* C20: the LinkedIn session cookie is attached to the page fetch and to the
\* image fetch when the platform is linkedin and a cookie is configured, and to
\* no request otherwise: none for twitter, instagram, facebook or other, and
\* never to the LLM call.  The page fetch uses the bot user agent exactly when
\* the platform is twitter, instagram or facebook; the image fetch never does.
C20_CookieOnlyForLinkedIn ==
    \A i \in 1..Len(log) :
        /\ log[i].cookies \subseteq {"li_at"}
        /\ log[i].cookies # {} => CookieDue /\ log[i].call \in {"page", "image"}
        /\ log[i].call \in {"page", "image"} => (log[i].cookies = {"li_at"} <=> CookieDue)
        /\ log[i].call = "page" =>
             (log[i].botUA <=> platform \in {"twitter", "instagram", "facebook"})
        /\ log[i].call # "page" => ~log[i].botUA

C20_Witness ==
    /\ platform = "linkedin"
    /\ cfg.cookie
    /\ \E i \in 1..Len(log) : log[i].call = "page" /\ log[i].cookies = {"li_at"}
    /\ \E i \in 1..Len(log) : log[i].call = "image" /\ log[i].cookies = {"li_at"}

C20_WitnessNoCookie ==
    /\ platform = "twitter"
    /\ cfg.cookie
    /\ \E i \in 1..Len(log) : log[i].call = "page" /\ log[i].cookies = {} /\ log[i].botUA
    /\ \E i \in 1..Len(log) : log[i].call = "image" /\ log[i].cookies = {}

\* the request is answered with one of the error responses
ErrorAnswered == Done /\ response.status = 400
\* nothing was dispatched or fetched in this request but the page, once
OnlyThePageFetched ==
    /\ Len(log) <= 1
    /\ \A i \in 1..Len(log) : log[i].call = "page"
    /\ response.body.error.kind = "url_required" => log = <<>>
    /\ spc = "idle"
    /\ soup = EmptyPage
    /\ result = NoResult
    /\ gen = NoGen
    /\ dlpc = "idle"
    /\ dlReturn = NoReturn
    /\ tmp = NoTmp
    /\ face_filename = 0
\* files come into the media store and the temporary directory through the
\* downloader only, and the step that answers with an error adds none
StoreStep ==
    /\ media' # media => dlpc = "optimize"
    /\ tmpFiles' # tmpFiles => dlpc \in {"tmp", "stream", "optimize"}
    /\ ErrorAnswered' => (media' = media /\ tmpFiles' = tmpFiles)

\* C24: a request that ends in an error response (missing URL, fetch failure,
\* LinkedIn block, 404, other HTTP status of 400 or more) has had no effect
\* beyond the one page fetch: no scraper was dispatched, no LLM call and no
\* image fetch were issued, the downloader was not called, and no file was
\* added to the media store.
C24_ErrorWithoutEffects ==
    /\ [](ErrorAnswered => OnlyThePageFetched)
    /\ [][StoreStep]_vars

C24_Witness ==
    /\ ErrorAnswered
    /\ platform = "twitter"
    /\ response.body.error = [kind |-> "not_found", hint |-> "handle"]
    /\ Len(log) = 1
    /\ media = {}

(***************************************************************************)
(* Properties of the LLM fallback of _scrape_generic, checked under        *)
(* SpecGeneric.                                                            *)
(***************************************************************************)
\* C11: whatever the LLM call did (no credential, network error, error status,
\* unexpected body, text that is no JSON, JSON that is no object, fenced text),
\* extract_profile_from_html returned None or a mapping, and _scrape_generic
\* raised nothing to its caller.
C11_LlmFailuresDegrade ==
    /\ spc # "raised"
    /\ spc \in {"heuristics", "returned"} => gen.llm_result.kind \in {"none", "dict"}

GenericFields == {"name", "description", "image_url"}

\* a step of the LLM stage or of the heuristics keeps every filled field
FilledFieldsKeptStep ==
    spc \in {"llm", "heuristics"} =>
        \A field \in GenericFields :
            gen[field] # <<>> =>
                /\ gen'[field] = gen[field]
                /\ spc' = "returned" => result'[field] = gen[field]

Submitted == NormalizeScheme(Strip(data))
Started == pc # "idle" /\ Strip(data) # <<>>

\* fragment occurs in u when letter case is ignored
HasFragment(u, fragment) ==
    \E i \in 1..Len(u) :
        \A k \in 1..Len(fragment) :
            i + k - 1 <= Len(u) /\ Lower(u[i + k - 1]) = fragment[k]
MatchesLinkedIn(u) == HasFragment(u, <<"l", "i", "n", "k", "e", "d", "i", "n", ".", "c", "o", "m">>)
MatchesTwitter(u) == HasFragment(u, <<"t", "w", "i", "t", "t", "e", "r", ".", "c", "o", "m">>) \/ HasFragment(u, <<"x", ".", "c", "o", "m">>)
MatchesInstagram(u) == HasFragment(u, <<"i", "n", "s", "t", "a", "g", "r", "a", "m", ".", "c", "o", "m">>)
MatchesFacebook(u) == HasFragment(u, <<"f", "a", "c", "e", "b", "o", "o", "k", ".", "c", "o", "m">>) \/ HasFragment(u, <<"f", "b", ".", "c", "o", "m">>)

\* C13: the platform detected for a URL is one of the five tags, fixed by the
\* URL alone: the first of linkedin.com, twitter.com or x.com, instagram.com,
\* facebook.com or fb.com that occurs in it, whatever the letter case, and
\* other exactly when none of them occurs.
C13_PlatformByFirstFragment ==
    Started =>
        /\ platform \in {"linkedin", "twitter", "instagram", "facebook", "other"}
        /\ platform = "linkedin" <=> MatchesLinkedIn(Submitted)
        /\ platform = "twitter" <=> (~MatchesLinkedIn(Submitted) /\ MatchesTwitter(Submitted))
        /\ platform = "instagram" <=>
             /\ ~MatchesLinkedIn(Submitted) /\ ~MatchesTwitter(Submitted)
             /\ MatchesInstagram(Submitted)
        /\ platform = "facebook" <=>
             /\ ~MatchesLinkedIn(Submitted) /\ ~MatchesTwitter(Submitted)
             /\ ~MatchesInstagram(Submitted) /\ MatchesFacebook(Submitted)
        /\ platform = "other" <=>
             /\ ~MatchesLinkedIn(Submitted) /\ ~MatchesTwitter(Submitted)
             /\ ~MatchesInstagram(Submitted) /\ ~MatchesFacebook(Submitted)

C13_Witness ==
    /\ Started
    /\ data = <<"h", "t", "t", "p", "s", ":", "/", "/", "t", "w", "i", "t", "t", "e", "r", ".", "c", "o", "m", "/", "?", "n", "e", "x", "t", "=", "l", "i", "n", "k", "e", "d", "i", "n", ".", "c", "o", "m">>
    /\ platform = "linkedin"

\* the fragments of the claim's denylist
DenyFragments ==
    {<<"/", "a", "e", "r", "o", "-", "v", "1", "/", "s", "c", "/", "h", "/">>, <<"g", "h", "o", "s", "t">>, <<"d", "e", "f", "a", "u", "l", "t">>, <<"p", "l", "a", "c", "e", "h", "o", "l", "d", "e", "r">>, <<"n", "o", "-", "p", "h", "o", "t", "o">>, <<"n", "o", "_", "p", "h", "o", "t", "o">>}
Denied(image_url) ==
    \/ image_url = <<>>
    \/ \E fragment \in DenyFragments : Contains(LowerStr(image_url), fragment)
FilterDecided == dlpc # "called"
RejectedUnfetched ==
    /\ dlpc = "returned"
    /\ dlReturn.filename = 0
    /\ dlReturn.error.kind \in {"no_url", "placeholder"}
    /\ \A i \in 1..Len(log) : log[i].call # "image"

\* C15: _is_valid_profile_image rejects a URL if and only if the URL is empty
\* or its lower-cased text contains one of the six denylist fragments, and
\* accepts every other URL; checked under SpecDownload, where _download_image
\* applies the filter to its URL before anything else.
C15_DenylistExactly ==
    /\ _is_valid_profile_image(dl_url) <=> ~Denied(dl_url)
    /\ FilterDecided => (RejectedUnfetched <=> Denied(dl_url))

C15_Witness ==
    /\ dl_url = <<"h", "t", "t", "p", "s", ":", "/", "/", "c", "/", "G", "H", "O", "S", "T", ".", "p", "n", "g">>
    /\ RejectedUnfetched
    /\ dlReturn.error.kind = "placeholder"

C15_WitnessAccepted ==
    /\ dl_url = <<"h", "t", "t", "p", "s", ":", "/", "/", "c", "/", "n", "o", "p", "h", "o", "t", "o">>
    /\ dlpc = "fetch"

\* what the response headers say, read off the response itself
StatusIsError == RaisesForStatus(imgResp.status)
TypeIsImage == StartsWith(imgResp.ctype, <<"i", "m", "a", "g", "e", "/">>)
TypeIsSvg == Contains(imgResp.ctype, <<"s", "v", "g">>)
HeaderRejected ==
    /\ dlpc = "returned"
    /\ \/ StatusIsError
       \/ dlReturn.error.kind \in {"not_image", "svg", "too_small_header"}
\* save_and_optimize is about to be called or has been called
OptimizerInvoked ==
    \/ dlpc = "optimize"
    \/ dlReturn.filename # 0
    \/ dlReturn.raised = "UnidentifiedImageError"
    \/ media # {}

\* C19: the rejection steps of _download_image run in order: no fetch is issued
\* for a URL the validity filter rejects; each header check rejects only what
\* the checks before it let pass, and no temporary file is created when the
\* status, content-type, SVG or content-length-header check rejects; and
\* save_and_optimize is invoked only after the fetch and every check, the
\* measured-size check included, has passed.
C19_RejectionStepsInOrder ==
    /\ Denied(dl_url) =>
         /\ \A i \in 1..Len(log) : log[i].call # "image"
         /\ imgResp = NoImgResp
         /\ tmpCount = 0
    /\ HeaderRejected =>
         /\ Cardinality(Calls("image")) = 1
         /\ tmpCount = 0
         /\ tmp = NoTmp
         /\ dlReturn.error.kind = "not_image" => ~StatusIsError
         /\ dlReturn.error.kind = "svg" => ~StatusIsError /\ TypeIsImage
         /\ dlReturn.error.kind = "too_small_header" =>
              ~StatusIsError /\ TypeIsImage /\ ~TypeIsSvg
    /\ OptimizerInvoked =>
         /\ Cardinality(Calls("image")) = 1
         /\ ~Denied(dl_url)
         /\ ~StatusIsError
         /\ TypeIsImage
         /\ ~TypeIsSvg
         /\ ~HeaderBelowMin
         /\ tmp.id # 0
         /\ remaining = 0
         /\ total_bytes >= MinBodyBytes

C19_Witness ==
    /\ dlpc = "returned"
    /\ dlReturn.filename # 0
    /\ imgResp.clen.value = <<"1", "0", "0", "0">>
    /\ total_bytes = MinBodyBytes
    /\ tmpCount = 1

C19_WitnessHeaderRejected ==
    /\ HeaderRejected
    /\ dlReturn.error.kind = "too_small_header"
    /\ imgResp.clen.value = <<"9", "9", "9">>

(***************************************************************************)
(* Properties of the cleaners, checked under SpecScrapers.                 *)
(***************************************************************************)
\* the og:description _scrape_linkedin cleaned, on a page that has one
LinkedInCleaned ==
    /\ spc = "returned"
    /\ platform = "linkedin"
    /\ soup.og.description # <<>>
NoSegmentSurvives ==
    CleanParts(Split(StripConnect(StripConnections(soup.og.description)), "middot")) = <<>>

\* C14: the cleaned form of a non-empty LinkedIn description is non-empty, and
\* it is the original description trimmed when no segment survives the filter.
C14_NonEmptyDescriptionKept ==
    LinkedInCleaned =>
        /\ result.description # <<>>
        /\ NoSegmentSurvives => result.description = Strip(soup.og.description)

\* a scraper returned the name it cleaned from the og:title
NameCleaned == spc = "returned" /\ DisplayNameLen(soup.og.title) = 0
HasSeparator(name) == \E i \in 1..Len(name) : name[i] \in {"|", "-", "ndash", "mdash"}
\* the text before the first separator of the trimmed title, trimmed; the
\* whole of it when it has no separator
BeforeFirstSeparator(title) ==
    LET name == Strip(title) IN
    IF HasSeparator(name)
    THEN Strip(Take(name, (CHOOSE i \in 1..Len(name) :
                              /\ name[i] \in {"|", "-", "ndash", "mdash"}
                              /\ ~HasSeparator(Take(name, i - 1))) - 1))
    ELSE name
Caseless(name) == name = LowerStr(name) \/ name = UpperStr(name)

\* C17: _clean_name returns the empty string for an empty title; of any other
\* title it keeps nothing from the first |, -, en dash or em dash on, so that
\* the name is the start of the text before that separator, in title case when
\* that start is entirely lowercase or entirely uppercase; and the name is the
\* same whatever the platform argument.
C17_NameCutAtFirstSeparator ==
    NameCleaned =>
        /\ soup.og.title = <<>> => result.name = <<>>
        /\ ~HasSeparator(result.name)
        /\ \E n \in 0..Len(BeforeFirstSeparator(soup.og.title)) :
             LET kept == Strip(Take(BeforeFirstSeparator(soup.og.title), n)) IN
             result.name = IF Caseless(kept) THEN Title(kept) ELSE kept
        /\ \A plat \in {"linkedin", "twitter", "instagram", "facebook", "other"} :
             _clean_name(soup.og.title, plat) = result.name

(***************************************************************************)
(* Properties of the URL scrape_url fetches, checked under SpecCanonical.  *)
(***************************************************************************)
\* the host of an absolute URL and the position of the path that follows it
HostStart(u) == Find(u, <<":", "/", "/">>) + 3
HostLen(u) ==
    LET from == HostStart(u) IN
    IF \E i \in from..Len(u) : u[i] \in {"/", "?", "#"}
    THEN (CHOOSE i \in from..Len(u) :
            /\ u[i] \in {"/", "?", "#"}
            /\ \A j \in from..(i - 1) : u[j] \notin {"/", "?", "#"}) - from
    ELSE Len(u) - from + 1
Host(u) == SubSeq(u, HostStart(u), HostStart(u) + HostLen(u) - 1)
EndsWith(s, sub) == Len(sub) <= Len(s) /\ MatchAt(s, sub, Len(s) - Len(sub) + 1)
IsTwitterHost(host) ==
    \/ host \in {<<"t", "w", "i", "t", "t", "e", "r", ".", "c", "o", "m">>, <<"x", ".", "c", "o", "m">>}
    \/ EndsWith(host, <<".", "t", "w", "i", "t", "t", "e", "r", ".", "c", "o", "m">>)
    \/ EndsWith(host, <<".", "x", ".", "c", "o", "m">>)
\* the path segment that follows the host
FirstSegment(u) ==
    LET from == HostStart(u) + HostLen(u) + 1 IN
    SubSeq(u, from, from + WordRunAt(u, from) - 1)

PageFetched == Cardinality(Calls("page")) = 1
FetchedUrl == log[CHOOSE i \in 1..Len(log) : log[i].call = "page"].url
HandleMatches == platform = "twitter" /\ HandleStart(Submitted) # 0

\* C18: for a URL detected as twitter whose handle matches, the URL fetched and
\* reported as source_url is https://x.com/<handle>, the handle being the path
\* segment after the twitter.com or x.com host of the submitted URL; a canonical
\* URL is left as it is; and on every other platform the URL fetched is the
\* submitted one with its scheme normalized.
C18_TwitterUrlCanonical ==
    PageFetched =>
        /\ FetchedUrl = url
        /\ (Done /\ response.status = 200) => response.body.source_url = url
        /\ HandleMatches =>
             /\ IsTwitterHost(Host(Submitted))
             /\ url = <<"h", "t", "t", "p", "s", ":", "/", "/", "x", ".", "c", "o", "m", "/">> \o FirstSegment(Submitted)
        /\ CanonicalUrl(url, platform) = url
        /\ platform # "twitter" => url = Submitted

\* _scrape_linkedin returned from an authenticated page without meta image
PhotoExtracted ==
    /\ spc = "returned"
    /\ platform = "linkedin"
    /\ soup.og.description = <<>>
    /\ Or(soup.og.image, soup.tw.image) = <<>>
HasSuffix(size) == \E i \in 1..Len(soup.suffixes) : soup.suffixes[i][1] = size
\* the URL built from the first root and the first suffix found for size
PhotoUrlOf(size) ==
    LET first == CHOOSE i \in 1..Len(soup.suffixes) :
                    /\ soup.suffixes[i][1] = size
                    /\ \A j \in 1..(i - 1) : soup.suffixes[j][1] # size
    IN  Unescape(soup.roots[1] \o <<"s", "h", "r", "i", "n", "k", "_">> \o size \o soup.suffixes[first][2])
\* the URL for the first size of order that has a suffix, empty when none has
RECURSIVE PreferredPhotoUrl(_)
PreferredPhotoUrl(order) ==
    IF order = <<>> THEN <<>>
    ELSE IF HasSuffix(Head(order)) THEN PhotoUrlOf(Head(order))
    ELSE PreferredPhotoUrl(Tail(order))

\* C22 as stated: the photo URL carries the first of the sizes 400x400, 200x200,
\* 100x100 for which a suffix occurs in the markup, never a larger size, and is
\* empty when no root or no suffix is found.
C22_PhotoSizeAtMost400 ==
    PhotoExtracted =>
        /\ ~Contains(result.image_url, <<"s", "h", "r", "i", "n", "k", "_", "8", "0", "0", "_", "8", "0", "0">>)
        /\ result.image_url =
             IF soup.roots = <<>> THEN <<>>
             ELSE PreferredPhotoUrl(<<<<"4", "0", "0", "_", "4", "0", "0">>, <<"2", "0", "0", "_", "2", "0", "0">>, <<"1", "0", "0", "_", "1", "0", "0">>>>)

\* C22 as amended: the sizes are tried in the order 400x400, 800x800, 200x200,
\* 100x100, so the URL carries 800x800 when the markup has a suffix of that size
\* and none of 400x400; it is built from the first root and the first suffix of
\* the chosen size, and is empty exactly when no root or no suffix of the four
\* sizes is found.
C22_PhotoSizeByPreference ==
    PhotoExtracted =>
        /\ result.image_url =
             IF soup.roots = <<>> THEN <<>>
             ELSE PreferredPhotoUrl(<<<<"4", "0", "0", "_", "4", "0", "0">>, <<"8", "0", "0", "_", "8", "0", "0">>, <<"2", "0", "0", "_", "2", "0", "0">>, <<"1", "0", "0", "_", "1", "0", "0">>>>)
        /\ result.image_url = <<>> <=> (soup.roots = <<>> \/ soup.suffixes = <<>>)

C22_Witness ==
    /\ PhotoExtracted
    /\ HasSuffix(<<"8", "0", "0", "_", "8", "0", "0">>)
    /\ HasSuffix(<<"2", "0", "0", "_", "2", "0", "0">>)
    /\ ~HasSuffix(<<"4", "0", "0", "_", "4", "0", "0">>)
    /\ result.image_url = <<"h", "t", "t", "p", "s", ":", "/", "/", "m", "/", "p", "h", "o", "t", "o", "-", "s", "h", "r", "i", "n", "k", "_", "8", "0", "0", "_", "8", "0", "0", "/", "b", "&", "c">>

\* the word "on", then a blank, then one of the platform names as a word
OnPlatformPhraseAt(name, p) ==
    LET lower == LowerStr(name)
        len == WordAt(lower, p + 3, <<<<"l", "i", "n", "k", "e", "d", "i", "n">>, <<"t", "w", "i", "t", "t", "e", "r">>, <<"f", "a", "c", "e", "b", "o", "o", "k">>, <<"x">>>>)
    IN  /\ p = 1 \/ ~IsWordChar(name[p - 1])
        /\ MatchAt(lower, <<"o", "n", " ">>, p)
        /\ len > 0
        /\ p + 3 + len > Len(name) \/ ~IsWordChar(name[p + 3 + len])
\* no separator, no "on <Platform>" phrase and no comma in the title
PlainName(title) ==
    /\ ~HasSeparator(title)
    /\ \A p \in 1..Len(title) : ~OnPlatformPhraseAt(title, p) /\ title[p] # ","

\* C23: of a raw name without separator, without "on <Platform>" phrase and
\* without comma-introduced credential suffix _clean_name drops no character:
\* the name it returns is the trimmed raw name, title-cased when that is
\* entirely lowercase or entirely uppercase and unchanged otherwise.
C23_PlainNameKept ==
    (NameCleaned /\ PlainName(soup.og.title)) =>
        result.name = IF Caseless(Strip(soup.og.title))
                      THEN Title(Strip(soup.og.title))
                      ELSE Strip(soup.og.title)

====
